---- MODULE Spec2Model ----
(***************************************************************************)
(* A model of the IB simulator's listener (core/server.py) and per-client  *)
(* session engine (core/client_handler.py), with the field-level encoder   *)
(* and decoder they use (protocol/encoder.py, protocol/decoder.py).        *)
(*                                                                         *)
(* The server runs on one asyncio event loop.  A task runs without         *)
(* interruption from one suspension point (await reader.read, await        *)
(* writer.drain, await writer.wait_closed) to the next, so every action    *)
(* below is one such atomic section of one task, and the interleavings of  *)
(* the actions are the schedules of the event loop.                        *)
(*                                                                         *)
(* Python values are carried with their type, because encode_fields and    *)
(* the read_* helpers dispatch on it: PyInt(n), PyStr(s), PyFloat(text),   *)
(* PyBool(b), PyNone.  Bytes read in the handshake are sequences of        *)
(* one-character strings with NUL standing for the byte 0.  A frame is     *)
(* the sequence of its NUL-terminated fields, each field a text.           *)
(***************************************************************************)
EXTENDS Integers, Sequences, FiniteSets, TLC

\* ------------------------------------------------------------------ bounds
\* Connections the listener accepts in one run (rejected ones included).
MaxAccepts == 3
\* Framed messages one client sends after its handshake.
MaxFrames == 3
\* Calls of broadcast_market_data in one run.
MaxBroadcasts == 1
\* Clock ticks a run lasts; TicksPerSecond ticks make one second.
MaxTime == 3
TicksPerSecond == 2
\* config['server']['max_clients'] and config['protocol']['message_rate_limit'].
max_clients == 2
message_rate_limit == 3

\* ------------------------------------------------------------ Python values
PyNone == [t |-> "none", v |-> 0]
PyInt(n) == [t |-> "int", v |-> n]
PyStr(s) == [t |-> "str", v |-> s]
PyFloat(s) == [t |-> "float", v |-> s]
PyBool(b) == [t |-> "bool", v |-> b]

NUL == "NUL"
Digits == <<"0", "1", "2", "3", "4", "5", "6", "7", "8", "9">>

DigitValue(ch) == (CHOOSE i \in 1..10 : Digits[i] = ch) - 1

IsDigit(ch) == \E i \in 1..10 : Digits[i] = ch

\* --------------------------------------------------- bytes and text helpers
\* bytes.startswith(prefix)
startswith(data, prefix) ==
    /\ Len(data) >= Len(prefix)
    /\ SubSeq(data, 1, Len(prefix)) = prefix

\* bytes.split(sep) for a one-byte separator
RECURSIVE SplitBytes(_, _)
SplitBytes(data, sep) ==
    IF \E i \in 1..Len(data) : data[i] = sep
    THEN LET i == CHOOSE k \in 1..Len(data) :
                      data[k] = sep /\ \A j \in 1..(k - 1) : data[j] # sep
         IN  <<SubSeq(data, 1, i - 1)>>
                 \o SplitBytes(SubSeq(data, i + 1, Len(data)), sep)
    ELSE <<data>>

\* str.split('..'): the separator is matched left to right, without overlap
RECURSIVE SplitDots(_)
SplitDots(s) ==
    IF \E i \in 1..(Len(s) - 1) : s[i] = "." /\ s[i + 1] = "."
    THEN LET i == CHOOSE k \in 1..(Len(s) - 1) :
                      /\ s[k] = "." /\ s[k + 1] = "."
                      /\ \A j \in 1..(k - 1) : ~(s[j] = "." /\ s[j + 1] = ".")
         IN  <<SubSeq(s, 1, i - 1)>> \o SplitDots(SubSeq(s, i + 2, Len(s)))
    ELSE <<s>>

\* int(text) succeeds on a non-empty run of decimal digits (the only numerals
\* the alphabet of the modelled inputs can spell) and raises ValueError otherwise.
IsDecimal(s) == Len(s) > 0 /\ \A i \in 1..Len(s) : IsDigit(s[i])

RECURSIVE DecimalValue(_)
DecimalValue(s) ==
    IF s = <<>> THEN 0
    ELSE 10 * DecimalValue(SubSeq(s, 1, Len(s) - 1)) + DigitValue(s[Len(s)])

\* The integers whose decimal text occurs in a framed field of the model.
FieldInts == (-1..30) \cup {42, 49, 61, 71, 74, 78, 100, 176, 9999}

\* int(text) on a field of a frame; PyNone stands for ValueError.
IntOfText(s) ==
    IF \E n \in FieldInts : ToString(n) = s
    THEN PyInt(CHOOSE n \in FieldInts : ToString(n) = s)
    ELSE PyNone

\* ------------------------------------------------------- message catalogue
\* protocol/message_ids.py is not among the files modelled; the numbers are
\* the vendor's, which test_client.py repeats for START_API (71),
\* REQ_MKT_DATA (1) and REQ_ACCT_DATA (6).
IncomingMessageIds ==
    [REQ_MKT_DATA |-> 1, CANCEL_MKT_DATA |-> 2, PLACE_ORDER |-> 3,
     CANCEL_ORDER |-> 4, REQ_OPEN_ORDERS |-> 5, REQ_ACCT_DATA |-> 6,
     REQ_EXECUTIONS |-> 7, REQ_IDS |-> 8, REQ_CONTRACT_DATA |-> 9,
     REQ_MANAGED_ACCTS |-> 17, REQ_HISTORICAL_DATA |-> 20,
     REQ_CURRENT_TIME |-> 49, REQ_POSITIONS |-> 61, START_API |-> 71,
     REQ_POSITIONS_MULTI |-> 74, REQ_SEC_DEF_OPT_PARAMS |-> 78]

OutgoingMessageIds ==
    [TICK_PRICE |-> 1, TICK_SIZE |-> 2, ORDER_STATUS |-> 3, ERR_MSG |-> 4,
     ACCT_VALUE |-> 6, PORTFOLIO_VALUE |-> 7, ACCT_UPDATE_TIME |-> 8,
     NEXT_VALID_ID |-> 9, CONTRACT_DATA |-> 10, MANAGED_ACCTS |-> 15,
     HISTORICAL_DATA |-> 17, CURRENT_TIME |-> 49, CONTRACT_DATA_END |-> 52,
     OPEN_ORDER_END |-> 53, ACCT_DOWNLOAD_END |-> 54,
     EXECUTION_DATA_END |-> 55, POSITION_DATA |-> 61, POSITION_END |-> 62,
     SECURITY_DEFINITION_OPTION_PARAMETER_END |-> 76]

ErrorCodes ==
    [MAX_RATE_EXCEEDED |-> 100, UNKNOWN_ID |-> 505, SERVER_ERROR |-> 504]

\* ----------------------------------------------------------------- encoder
\* The text encode_fields renders one field as (encoder.py lines 27-41).
FieldText(field) ==
    CASE field.t = "none"  -> ""
      [] field.t = "bool"  -> IF field.v THEN "1" ELSE "0"
      [] field.t = "int"   -> ToString(field.v)
      [] field.t = "float" -> field.v
      [] OTHER             -> field.v

\* MessageEncoder.encode_fields: every field, the last one included, becomes
\* one NUL-terminated text; the frame is the sequence of these texts.
encode_fields(fields) == [i \in 1..Len(fields) |-> FieldText(fields[i])]

make_message(msg_id, fields) == encode_fields(<<PyInt(msg_id)>> \o fields)

\* A handshake reply that leads with a message kind.
server_version_with_kind(version, connection_time) ==
    make_message(0, <<PyInt(version), PyStr(connection_time)>>)

server_version(version, connection_time) ==
    encode_fields(<<PyInt(version), PyStr(connection_time)>>)

next_valid_id(order_id) ==
    make_message(OutgoingMessageIds.NEXT_VALID_ID, <<PyInt(order_id)>>)

managed_accounts(accounts) ==
    make_message(OutgoingMessageIds.MANAGED_ACCTS, <<PyStr(accounts)>>)

error_message(req_id, error_code, error_msg) ==
    make_message(OutgoingMessageIds.ERR_MSG,
                 <<PyInt(req_id), PyInt(error_code), PyStr(error_msg)>>)

tick_price(req_id, tick_type, price) ==
    make_message(OutgoingMessageIds.TICK_PRICE,
                 <<req_id, PyInt(tick_type), price,
                   PyBool(TRUE), PyBool(FALSE)>>)

tick_size(req_id, tick_type, size) ==
    make_message(OutgoingMessageIds.TICK_SIZE,
                 <<req_id, PyInt(tick_type), size>>)

account_value(key, value, currency, account) ==
    make_message(OutgoingMessageIds.ACCT_VALUE,
                 <<PyStr(key), PyStr(value), PyStr(currency), PyStr(account)>>)

account_update_time(timestamp) ==
    make_message(OutgoingMessageIds.ACCT_UPDATE_TIME, <<PyStr(timestamp)>>)

account_download_end(account) ==
    make_message(OutgoingMessageIds.ACCT_DOWNLOAD_END, <<PyStr(account)>>)

contract_data_end(req_id) ==
    make_message(OutgoingMessageIds.CONTRACT_DATA_END, <<req_id>>)

portfolio_value(position, account) ==
    make_message(OutgoingMessageIds.PORTFOLIO_VALUE,
                 <<position.con_id, PyStr(position.symbol),
                   PyStr(position.security_type), PyStr(""), PyInt(0),
                   PyStr(""), PyInt(1), PyStr(""), PyStr(position.currency),
                   PyStr(position.symbol), PyStr(position.symbol),
                   position.position, position.market_price,
                   position.market_value, position.avg_cost,
                   position.unrealized_pnl, position.realized_pnl,
                   PyStr(account)>>)

position_data(account, position) ==
    make_message(OutgoingMessageIds.POSITION_DATA,
                 <<PyStr(account), position.con_id, PyStr(position.symbol),
                   PyStr(position.security_type), PyStr(""), PyInt(0),
                   PyStr(""), PyInt(1), PyStr("SMART"),
                   PyStr(position.currency), PyStr(position.symbol),
                   PyStr(position.symbol), position.position,
                   position.avg_cost>>)

position_end == make_message(OutgoingMessageIds.POSITION_END, <<>>)

order_status(order_id, status, filled, remaining, avg_fill_price, perm_id, parent_id, last_fill_price, client, why_held, mkt_cap_price) ==
    make_message(OutgoingMessageIds.ORDER_STATUS,
                 <<order_id, PyStr(status), filled, remaining, avg_fill_price,
                   perm_id, parent_id, last_fill_price, client,
                   PyStr(why_held), mkt_cap_price>>)

open_order_end == make_message(OutgoingMessageIds.OPEN_ORDER_END, <<>>)

execution_data_end(req_id) ==
    make_message(OutgoingMessageIds.EXECUTION_DATA_END, <<req_id>>)

security_definition_option_parameter_end(req_id) ==
    make_message(OutgoingMessageIds.SECURITY_DEFINITION_OPTION_PARAMETER_END,
                 <<req_id>>)

historical_data(req_id, start_date, end_date, bar_count) ==
    make_message(OutgoingMessageIds.HISTORICAL_DATA,
                 <<req_id, PyStr(start_date), PyStr(end_date),
                   PyInt(bar_count)>>)

current_time(time) ==
    make_message(OutgoingMessageIds.CURRENT_TIME, <<PyInt(time)>>)

contract_data(req_id, info) ==
    make_message(OutgoingMessageIds.CONTRACT_DATA,
                 <<req_id, PyStr(info.symbol), PyStr(info.security_type),
                   PyStr(""), PyInt(0), PyStr(""), PyStr(info.exchange),
                   PyStr(info.currency), PyStr(info.local_symbol),
                   PyStr(info.trading_class), info.con_id, PyFloat("0.01"),
                   PyInt(1), info.multiplier, PyStr("MKT,LMT,STP,STP_LMT"),
                   PyStr("SMART,NYSE,NASDAQ"), PyInt(1), PyInt(0),
                   PyStr(info.symbol), PyStr("SMART"),
                   PyStr(""), PyStr(""), PyStr(""), PyStr(""), PyStr("EST"),
                   PyStr("09:30-16:00"), PyStr("09:30-16:00"), PyStr(""),
                   PyInt(0), PyInt(0)>>)

\* ----------------------------------------------------------------- decoder
\* A received frame is the sequence of the texts decode_fields splits its body
\* into.  Python indexes from 0, the model from 1.
read_int(fields, index) ==
    IF index > Len(fields) THEN PyNone
    ELSE IF fields[index] = "" THEN PyNone
    ELSE IntOfText(fields[index])

read_str(fields, index) ==
    IF index > Len(fields) THEN "" ELSE fields[index]

read_bool(fields, index) ==
    IF index > Len(fields) THEN FALSE ELSE fields[index] = "1"

\* Of the twelve contract fields the parsers fill, the handlers read symbol and
\* sec_type only; con_id is kept with them and the other nine are left out.
parse_contract(fields, index) ==
    [con_id |-> read_int(fields, index),
     symbol |-> read_str(fields, index + 1),
     sec_type |-> read_str(fields, index + 2)]

parse_req_mkt_data(fields) ==
    [req_id |-> read_int(fields, 1),
     contract |-> parse_contract(fields, 2),
     generic_tick_list |-> read_str(fields, 14),
     snapshot |-> read_bool(fields, 15),
     regulatory_snapshot |-> read_bool(fields, 16)]

parse_cancel_mkt_data(fields) == [req_id |-> read_int(fields, 1)]

parse_req_acct_data(fields) ==
    [subscribe |-> read_bool(fields, 1), account_code |-> read_str(fields, 2)]

parse_req_contract_details(fields) ==
    [req_id |-> read_int(fields, 1), contract |-> parse_contract(fields, 2)]

\* Of the order fields the parser fills, _handle_place_order reads action,
\* order_type and total_quantity into a record it does not use again.
parse_place_order(fields) ==
    [order_id |-> read_int(fields, 1), contract |-> parse_contract(fields, 2)]

parse_cancel_order(fields) == [order_id |-> read_int(fields, 1)]

\* The three parsers below fill more fields; their handlers read req_id only.
parse_req_sec_def_opt_params(fields) == [req_id |-> read_int(fields, 1)]

parse_req_executions(fields) == [req_id |-> read_int(fields, 1)]

parse_req_historical_data(fields) == [req_id |-> read_int(fields, 1)]

parse_start_api(fields) ==
    [client_id |-> read_int(fields, 1),
     optional_capabilities |-> read_str(fields, 2)]

\* ------------------------------------------------------------ bytes on the wire
\* A byte is a one-character string: the printable ASCII characters stand for
\* themselves, NUL for the byte 0, and any other byte (the quote, the
\* backslash and the backtick among them) for its number.
Printable ==
    <<" ", "!", "x34", "#", "$", "%", "&", "'", "(", ")", "*", "+",
      ",", "-", ".", "/", "0", "1", "2", "3", "4", "5", "6", "7",
      "8", "9", ":", ";", "<", "=", ">", "?", "@", "A", "B", "C",
      "D", "E", "F", "G", "H", "I", "J", "K", "L", "M", "N", "O",
      "P", "Q", "R", "S", "T", "U", "V", "W", "X", "Y", "Z", "[",
      "x92", "]", "^", "_", "x96", "a", "b", "c", "d", "e", "f", "g",
      "h", "i", "j", "k", "l", "m", "n", "o", "p", "q", "r", "s",
      "t", "u", "v", "w", "x", "y", "z", "{", "|", "}", "~">>

ByteOf(n) ==
    IF n = 0 THEN NUL
    ELSE IF n \in 32..126 THEN Printable[n - 31]
    ELSE "x" \o ToString(n)

Ord(b) == CHOOSE n \in 0..255 : ByteOf(n) = b

\* struct.pack('>I', n) and struct.unpack('>I', data)[0]
pack_u32(n) ==
    <<ByteOf((n \div 16777216) % 256), ByteOf((n \div 65536) % 256),
      ByteOf((n \div 256) % 256), ByteOf(n % 256)>>

unpack_u32(data) ==
    Ord(data[1]) * 16777216 + Ord(data[2]) * 65536 + Ord(data[3]) * 256
        + Ord(data[4])

\* str(n) of an integer, as characters.
RECURSIVE NaturalText(_)
NaturalText(n) ==
    IF n < 10 THEN <<Digits[n + 1]>>
    ELSE NaturalText(n \div 10) \o <<Digits[(n % 10) + 1]>>

DecimalText(n) == IF n < 0 THEN <<"-">> \o NaturalText(-n) ELSE NaturalText(n)

\* int(text) of characters: an optional sign and a run of decimal digits;
\* anything else raises ValueError.
IsIntText(s) ==
    /\ s # <<>>
    /\ IF s[1] \in {"-", "+"} THEN IsDecimal(Tail(s)) ELSE IsDecimal(s)

IntValue(s) ==
    IF s[1] = "-" THEN -DecimalValue(Tail(s))
    ELSE IF s[1] = "+" THEN DecimalValue(Tail(s))
    ELSE DecimalValue(s)

\* The characters encode_fields renders one field as (encoder.py lines 27-41);
\* a str or a float carries its characters.
FieldBytes(field) ==
    CASE field.t = "none"  -> <<>>
      [] field.t = "bool"  -> IF field.v THEN <<"1">> ELSE <<"0">>
      [] field.t = "int"   -> DecimalText(field.v)
      [] OTHER             -> field.v

\* MessageEncoder.encode_fields down to the bytes: every field followed by one
\* NUL, and the four bytes of the length in front.
RECURSIVE encode_body(_)
encode_body(fields) ==
    IF fields = <<>> THEN <<>>
    ELSE FieldBytes(Head(fields)) \o <<NUL>> \o encode_body(Tail(fields))

encode_wire(fields) ==
    pack_u32(Len(encode_body(fields))) \o encode_body(fields)

\* A decoder that drops the empty fields.
RECURSIVE decode_fields_no_empty(_)
decode_fields_no_empty(data) ==
    IF data = <<>> THEN <<>>
    ELSE IF \E i \in 1..Len(data) : data[i] = NUL
    THEN LET i == CHOOSE k \in 1..Len(data) :
                      data[k] = NUL /\ \A j \in 1..(k - 1) : data[j] # NUL
         IN  (IF i = 1 THEN <<>> ELSE <<SubSeq(data, 1, i - 1)>>)
                 \o decode_fields_no_empty(SubSeq(data, i + 1, Len(data)))
    ELSE <<data>>

\* MessageDecoder.decode_fields: the body is cut at every NUL; bytes behind
\* the last NUL, if any, make one more field.
RECURSIVE decode_fields(_)
decode_fields(data) ==
    IF data = <<>> THEN <<>>
    ELSE IF \E i \in 1..Len(data) : data[i] = NUL
    THEN LET i == CHOOSE k \in 1..Len(data) :
                      data[k] = NUL /\ \A j \in 1..(k - 1) : data[j] # NUL
         IN  <<SubSeq(data, 1, i - 1)>>
                 \o decode_fields(SubSeq(data, i + 1, Len(data)))
    ELSE <<data>>

\* MessageDecoder.decode_message down to the bytes (decoder.py lines 21-44):
\* "none" is the return of (None, []), "raise" the ValueError of int().
decode_wire(data) ==
    IF Len(data) < 4 THEN [status |-> "none"]
    ELSE IF Len(data) < 4 + unpack_u32(data) THEN [status |-> "none"]
    ELSE LET fields == decode_fields(SubSeq(data, 5, 4 + unpack_u32(data)))
         IN  IF fields = <<>> THEN [status |-> "none"]
             ELSE IF ~IsIntText(fields[1]) THEN [status |-> "raise"]
             ELSE [status |-> "ok", msg_id |-> IntValue(fields[1]),
                   fields |-> Tail(fields)]

\* The text of a run of characters.
RECURSIVE Join(_)
Join(chars) == IF chars = <<>> THEN "" ELSE Head(chars) \o Join(Tail(chars))

\* The fields of one complete frame on the wire, as texts.
TextFrame(data) ==
    LET fields == decode_fields(SubSeq(data, 5, Len(data)))
    IN  [i \in 1..Len(fields) |-> Join(fields[i])]

\* A loop that throws away the bytes behind the last complete frame.
RECURSIVE extract_frames_drop_rest(_)
extract_frames_drop_rest(data) ==
    IF Len(data) < 4 THEN [frames |-> <<>>, rest |-> <<>>]
    ELSE IF Len(data) < 4 + unpack_u32(data)
    THEN [frames |-> <<>>, rest |-> <<>>]
    ELSE LET n == 4 + unpack_u32(data)
             r == extract_frames_drop_rest(SubSeq(data, n + 1, Len(data)))
         IN  [frames |-> <<SubSeq(data, 1, n)>> \o r.frames, rest |-> r.rest]

\* handle() lines 78-88: the complete frames at the front of the buffer, and
\* the bytes left behind them.
RECURSIVE ExtractFrames(_)
ExtractFrames(data) ==
    IF Len(data) < 4 THEN [frames |-> <<>>, rest |-> data]
    ELSE IF Len(data) < 4 + unpack_u32(data)
    THEN [frames |-> <<>>, rest |-> data]
    ELSE LET n == 4 + unpack_u32(data)
             r == ExtractFrames(SubSeq(data, n + 1, Len(data)))
         IN  [frames |-> <<SubSeq(data, 1, n)>> \o r.frames, rest |-> r.rest]

\* ------------------------------------------------------------ configuration
\* config['protocol']['version'] and the first configured account.
ProtocolVersion == 176
FirstAccount == "DU000001"

\* ClientHandler.rate_limit_window, 1.0 second, in clock ticks.
rate_limit_window == TicksPerSecond

\* strftime of a clock reading: the wall time as a text.
TimeText(t) == "T" \o ToString(t)

\* -------------------------------------------------------------------- state
Conns == 1..MaxAccepts

VARIABLES
    clients,                \* IBSimulatorServer.clients: the registered ids
    next_client_id,         \* IBSimulatorServer.next_client_id
    now,                    \* time.time(), in clock ticks
    pc,                     \* where each connection's handle_client task stands
    api_connected,          \* ClientHandler.api_connected
    client_version,         \* ClientHandler.client_version
    connection_time,        \* ClientHandler.connection_time
    market_data_subscriptions, \* ClientHandler.market_data_subscriptions
    account_subscriptions,  \* ClientHandler.account_subscriptions
    message_count,          \* ClientHandler.message_count
    last_message_time,      \* ClientHandler.last_message_time
    buffer,                 \* handle()'s buffer: complete frames not yet processed
    outq,                   \* frames the running handler has still to send
    eof,                    \* the peer has closed its sending side
    wire,                   \* what was written to each socket, in order
    tasks,                  \* the send_market_data tasks broadcasts created
    emitted,                \* history: the frames handed to _send_raw, per socket
    nread,                  \* history: frames read from each client
    nproc,                  \* history: frames taken out of each buffer
    first_read,             \* history: the bytes of each connection's first read
    dispatched,             \* history: per connection, what _process_message did with each frame
    broadcasts,             \* history: the calls of broadcast_market_data
    cancel_log,             \* history: the cancels each session carried out
    client_id,              \* ClientHandler.client_id
    rxbuf,                  \* handle()'s buffer: the bytes behind its last complete frame
    naps,                   \* history: the asyncio.sleep calls that returned, per session
    exit,                   \* history: how each session's ingress ended
    codec,                  \* the field vector under the codec, and what came back
    rxlog,                  \* history: the bytes each session has read, and the frames they split
    store,                  \* DatabaseManager.connection: open or closed, and the queries that fail
    stopping                \* where IBSimulatorServer.stop() stands

vars == <<clients, next_client_id, now, pc, api_connected, client_version,
          connection_time, market_data_subscriptions, account_subscriptions,
          message_count, last_message_time, buffer, outq, eof, wire, tasks,
          emitted, nread, nproc, first_read, dispatched, broadcasts,
          cancel_log, client_id, rxbuf, naps, exit, codec, rxlog, store,
          stopping>>

\* pc: "none" not accepted yet; "rejected" closed by the max-clients check;
\* "handshake" awaiting the first read; "hs_drain" awaiting the drain of the
\* handshake reply; "read" awaiting a read of the ingress loop; "send" in a
\* handler, awaiting the drain of the frame just written, more to follow;
\* "ready" awaiting the drain of a handler's last frame, frames left in buffer;
\* "closing" socket closed, awaiting wait_closed; "closed" handle_client over.
Open(c) == pc[c] \in {"handshake", "hs_drain", "read", "send", "ready"}

\* ------------------------------------------------------------ store adapter
\* The queries of DatabaseManager the handlers call.  Each runs inside a try
\* whose except clause logs the error and returns the empty result; a query
\* fails when the connection raises, as it does once close() has closed it.
StoreQueries ==
    {"get_account_summary", "get_positions", "get_open_orders",
     "get_contract_by_symbol"}

StoreFails(query) == ~store.open \/ query \in store.failing

\* The store holds one account with one open position and one contract.
get_account_summary(account_id) ==
    IF account_id = FirstAccount /\ ~StoreFails("get_account_summary")
    THEN [found |-> TRUE, net_liquidation |-> "1000000.0",
          cash_balance |-> "1000000.0", unrealized_pnl |-> "0.0",
          realized_pnl |-> "0.0", base_currency |-> "USD"]
    ELSE [found |-> FALSE]

get_positions(account_id) ==
    IF account_id = FirstAccount /\ ~StoreFails("get_positions")
    THEN <<[con_id |-> PyInt(1), symbol |-> "X", security_type |-> "STK",
            currency |-> "USD", position |-> PyFloat("10.0"),
            avg_cost |-> PyFloat("1.0"), market_price |-> PyFloat("1.0"),
            market_value |-> PyFloat("10.0"), unrealized_pnl |-> PyInt(0),
            realized_pnl |-> PyInt(0)]>>
    ELSE <<>>

\* The store holds no order, so that the query returns the empty list when it
\* succeeds as it does when it fails.
get_open_orders(account_id) == <<>>

get_contract_by_symbol(symbol, security_type) ==
    IF symbol = "X" /\ security_type = "STK"
       /\ ~StoreFails("get_contract_by_symbol")
    THEN [found |-> TRUE, con_id |-> PyInt(1), symbol |-> "X",
          security_type |-> "STK", exchange |-> "SMART", currency |-> "USD",
          local_symbol |-> "X", trading_class |-> "X", multiplier |-> PyInt(1)]
    ELSE [found |-> FALSE]

\* ------------------------------------------------------------ Python's dict
\* A dict keeps its entries in insertion order; del leaves the slot in place,
\* marked dead, and an insertion of a new key takes the next slot.  (A dict
\* re-packs its slots only when it has run out of them, which the six slots of
\* a small dict and the bound on frames rule out here.)
dict_used(entries) == Cardinality({i \in 1..Len(entries) : entries[i].live})

dict_has(entries, key) ==
    \E i \in 1..Len(entries) : entries[i].live /\ entries[i].key = key

dict_set(entries, key, val) ==
    IF dict_has(entries, key)
    THEN [i \in 1..Len(entries) |->
            IF entries[i].live /\ entries[i].key = key
            THEN [entries[i] EXCEPT !.val = val] ELSE entries[i]]
    ELSE Append(entries, [key |-> key, val |-> val, live |-> TRUE])

dict_del(entries, key) ==
    [i \in 1..Len(entries) |->
        IF entries[i].live /\ entries[i].key = key
        THEN [entries[i] EXCEPT !.live = FALSE] ELSE entries[i]]

dict_keys(entries) == {entries[i].key : i \in {j \in 1..Len(entries) : entries[j].live}}

\* ClientHandler.is_subscribed_to_symbol
is_subscribed_to_symbol(entries, symbol) ==
    \E i \in 1..Len(entries) :
        entries[i].live /\ entries[i].val.contract.symbol = symbol

\* The keys under which a symbol is subscribed.
KeysOf(entries, symbol) ==
    {entries[i].key : i \in {j \in 1..Len(entries) :
        entries[j].live /\ entries[j].val.contract.symbol = symbol}}

\* ----------------------------------------------------------------- handlers
\* What a handler leaves behind: the two subscription tables, the sends it
\* makes, in order, the client_id it adopts (None when it adopts none) and the
\* text of the exception it ends with (empty when it returns).  A send is a
\* frame, or a frame built from what the session and the server hold when it
\* is sent (the wall time, the order id counter, client_id), or the
\* asyncio.sleep between two frames.
NoArgs == [order_id |-> PyNone, status |-> ""]

Outcome(subs, acct, sends) ==
    [subs |-> subs, acct |-> acct, sends |-> sends, client_id |-> PyNone,
     error |-> ""]

Frame(f) == [op |-> "frame", frame |-> f, args |-> NoArgs]
TimeFrame == [op |-> "time", frame |-> <<>>, args |-> NoArgs]
NextValidIdFrame == [op |-> "next_valid_id", frame |-> <<>>, args |-> NoArgs]
CurrentTimeFrame == [op |-> "current_time", frame |-> <<>>, args |-> NoArgs]
Nap == [op |-> "nap", frame |-> <<>>, args |-> NoArgs]

\* IBSimulatorServer.get_next_order_id with `registered` sessions in the
\* registry, at time t.
get_next_order_id(registered, t) ==
    1000 + registered * 1000 + ((t \div TicksPerSecond) % 1000)

\* ClientHandler._send_order_status: the frame is built when it is sent, with
\* the client_id the session has then.
_send_order_status(order_id, status) ==
    [op |-> "order_status", frame |-> <<>>,
     args |-> [order_id |-> order_id, status |-> status]]

Resolve(send, t, cid, registered) ==
    CASE send.op = "time" -> account_update_time(TimeText(t))
      [] send.op = "next_valid_id" ->
            next_valid_id(get_next_order_id(registered, t))
      [] send.op = "current_time" -> current_time(t \div TicksPerSecond)
      [] send.op = "order_status" ->
            order_status(send.args.order_id, send.args.status, PyInt(0),
                         PyInt(0), PyInt(0),
                         PyInt(send.args.order_id.v + 1000), PyInt(0),
                         PyInt(0), PyInt(cid), "", PyInt(0))
      [] OTHER -> send.frame

\* The frames among the sends of a handler.
FramesOf(sends) == SelectSeq(sends, LAMBDA x : x.op # "nap")

\* A burst that leaves the volume out.
initial_market_data_no_volume(req_id) ==
    <<Frame(tick_price(req_id, 1, PyFloat("99.99"))),
      Frame(tick_price(req_id, 2, PyFloat("100.01"))),
      Frame(tick_price(req_id, 4, PyFloat("100.0"))),
      Frame(tick_size(req_id, 0, PyInt(100))),
      Frame(tick_size(req_id, 3, PyInt(100))),
      Frame(tick_size(req_id, 5, PyInt(50)))>>

\* ClientHandler._send_initial_market_data
_send_initial_market_data(req_id) ==
    <<Frame(tick_price(req_id, 1, PyFloat("99.99"))),
      Frame(tick_price(req_id, 2, PyFloat("100.01"))),
      Frame(tick_price(req_id, 4, PyFloat("100.0"))),
      Frame(tick_size(req_id, 0, PyInt(100))),
      Frame(tick_size(req_id, 3, PyInt(100))),
      Frame(tick_size(req_id, 5, PyInt(50))),
      Frame(tick_size(req_id, 8, PyInt(1000000)))>>

\* ClientHandler._handle_req_market_data
_handle_req_market_data(subs, acct, data) ==
    Outcome(dict_set(subs, data.req_id,
                     [contract |-> data.contract,
                      generic_ticks |-> data.generic_tick_list,
                      snapshot |-> data.snapshot,
                      regulatory_snapshot |-> data.regulatory_snapshot]),
            acct,
            _send_initial_market_data(data.req_id))

\* A cancel handler that leaves the descriptor in place.
cancel_keeps_descriptor(subs, acct, data) == Outcome(subs, acct, <<>>)

\* ClientHandler._handle_cancel_market_data
_handle_cancel_market_data(subs, acct, data) ==
    Outcome(IF dict_has(subs, data.req_id) THEN dict_del(subs, data.req_id)
            ELSE subs,
            acct, <<>>)

\* ClientHandler._send_account_updates
_send_account_updates(account_id) ==
    LET account_data == get_account_summary(account_id)
        currency == account_data.base_currency
        positions == get_positions(account_id)
    IN  (IF account_data.found
         THEN <<Frame(account_value("NetLiquidation",
                          account_data.net_liquidation, currency, account_id)),
                Frame(account_value("TotalCashValue",
                          account_data.cash_balance, currency, account_id)),
                Frame(account_value("UnrealizedPnL",
                          account_data.unrealized_pnl, currency, account_id)),
                Frame(account_value("RealizedPnL",
                          account_data.realized_pnl, currency, account_id)),
                TimeFrame>>
         ELSE <<>>)
        \o [i \in 1..Len(positions) |->
               Frame(portfolio_value(positions[i], account_id))]
        \o <<Frame(account_download_end(account_id))>>

\* A handler that answers an unsubscribe and keeps the subscription.
acct_unsubscribe_keeps(subs, acct, data) ==
    LET account_code == IF data.account_code = "" THEN FirstAccount
                        ELSE data.account_code
    IN  IF data.subscribe
        THEN Outcome(subs, acct \cup {account_code},
                     _send_account_updates(account_code))
        ELSE Outcome(subs, acct,
                     <<Frame(account_download_end(account_code))>>)

\* ClientHandler._handle_req_account_data
_handle_req_account_data(subs, acct, data) ==
    LET account_code == IF data.account_code = "" THEN FirstAccount
                        ELSE data.account_code
    IN  IF data.subscribe
        THEN Outcome(subs, acct \cup {account_code},
                     _send_account_updates(account_code))
        ELSE Outcome(subs, acct \ {account_code},
                     <<Frame(account_download_end(account_code))>>)

\* A handler that sends the end marker only behind a contract.
contract_details_end_if_found(subs, acct, data) ==
    LET contract_info ==
            get_contract_by_symbol(data.contract.symbol, data.contract.sec_type)
    IN  Outcome(subs, acct,
                IF data.contract.symbol # "" /\ contract_info.found
                THEN <<Frame(contract_data(data.req_id, contract_info)),
                       Frame(contract_data_end(data.req_id))>>
                ELSE <<>>)

\* ClientHandler._handle_req_contract_details
_handle_req_contract_details(subs, acct, data) ==
    LET contract_info ==
            get_contract_by_symbol(data.contract.symbol, data.contract.sec_type)
    IN  Outcome(subs, acct,
                (IF data.contract.symbol # "" /\ contract_info.found
                 THEN <<Frame(contract_data(data.req_id, contract_info))>>
                 ELSE <<>>)
                \o <<Frame(contract_data_end(data.req_id))>>)

\* ClientHandler._send_managed_accounts: the configured accounts, joined by
\* commas (one account is configured).
_send_managed_accounts == Frame(managed_accounts(FirstAccount))

\* A handler that lists the accounts before the next valid id.
start_api_accounts_first(subs, acct, data) ==
    [Outcome(subs, acct, <<_send_managed_accounts, NextValidIdFrame>>)
        EXCEPT !.client_id = data.client_id]

\* ClientHandler._handle_start_api
_handle_start_api(subs, acct, data) ==
    [Outcome(subs, acct, <<NextValidIdFrame, _send_managed_accounts>>)
        EXCEPT !.client_id = data.client_id]

\* ClientHandler._handle_req_ids
_handle_req_ids(subs, acct) == Outcome(subs, acct, <<NextValidIdFrame>>)

\* ClientHandler._handle_req_managed_accounts
_handle_req_managed_accounts(subs, acct) ==
    Outcome(subs, acct, <<_send_managed_accounts>>)

\* A handler that lets the failure of its store query through.
positions_query_raises(subs, acct) ==
    LET positions == get_positions(FirstAccount)
    IN  IF StoreFails("get_positions")
        THEN [Outcome(subs, acct, <<>>) EXCEPT !.error = "Failed to get positions"]
        ELSE Outcome(subs, acct,
                     [i \in 1..Len(positions) |->
                         Frame(position_data(FirstAccount, positions[i]))]
                     \o <<Frame(position_end)>>)

\* ClientHandler._handle_req_positions
_handle_req_positions(subs, acct) ==
    LET positions == get_positions(FirstAccount)
    IN  Outcome(subs, acct,
                [i \in 1..Len(positions) |->
                    Frame(position_data(FirstAccount, positions[i]))]
                \o <<Frame(position_end)>>)

\* order_id + 1000 in _send_order_status raises TypeError when the request
\* carried no order id.
NoOrderId == "unsupported operand type(s) for +: 'NoneType' and 'int'"

\* A handler that reports the order submitted before it is pending.
place_order_submitted_first(subs, acct, data) ==
    IF data.order_id = PyNone
    THEN [Outcome(subs, acct, <<>>) EXCEPT !.error = NoOrderId]
    ELSE Outcome(subs, acct,
                 <<_send_order_status(data.order_id, "Submitted"), Nap,
                   _send_order_status(data.order_id, "PendingSubmit")>>)

\* ClientHandler._handle_place_order
_handle_place_order(subs, acct, data) ==
    IF data.order_id = PyNone
    THEN [Outcome(subs, acct, <<>>) EXCEPT !.error = NoOrderId]
    ELSE Outcome(subs, acct,
                 <<_send_order_status(data.order_id, "PendingSubmit"), Nap,
                   _send_order_status(data.order_id, "Submitted")>>)

\* ClientHandler._handle_cancel_order
_handle_cancel_order(subs, acct, data) ==
    IF data.order_id = PyNone
    THEN [Outcome(subs, acct, <<>>) EXCEPT !.error = NoOrderId]
    ELSE Outcome(subs, acct,
                 <<_send_order_status(data.order_id, "PendingCancel"), Nap,
                   _send_order_status(data.order_id, "Cancelled")>>)

\* ClientHandler._handle_req_open_orders
_handle_req_open_orders(subs, acct) ==
    LET orders == get_open_orders(FirstAccount)
    IN  \* for order in orders: pass
        Outcome(subs, acct, <<Frame(open_order_end)>>)

\* ClientHandler._handle_req_option_params
_handle_req_option_params(subs, acct, data) ==
    Outcome(subs, acct,
            <<Frame(security_definition_option_parameter_end(data.req_id))>>)

\* ClientHandler._handle_req_current_time
_handle_req_current_time(subs, acct) ==
    Outcome(subs, acct, <<CurrentTimeFrame>>)

\* ClientHandler._handle_req_executions
_handle_req_executions(subs, acct, data) ==
    Outcome(subs, acct, <<Frame(execution_data_end(data.req_id))>>)

\* ClientHandler._handle_req_historical_data
_handle_req_historical_data(subs, acct, data) ==
    Outcome(subs, acct, <<Frame(historical_data(data.req_id, "", "", 0))>>)

\* ClientHandler._route_message: the handler table, and the error frame for a
\* kind that is not in it.
HandledKinds ==
    {IncomingMessageIds.START_API, IncomingMessageIds.REQ_IDS,
     IncomingMessageIds.REQ_MANAGED_ACCTS, IncomingMessageIds.REQ_ACCT_DATA,
     IncomingMessageIds.REQ_POSITIONS, IncomingMessageIds.REQ_MKT_DATA,
     IncomingMessageIds.CANCEL_MKT_DATA, IncomingMessageIds.PLACE_ORDER,
     IncomingMessageIds.CANCEL_ORDER, IncomingMessageIds.REQ_OPEN_ORDERS,
     IncomingMessageIds.REQ_CONTRACT_DATA,
     IncomingMessageIds.REQ_SEC_DEF_OPT_PARAMS,
     IncomingMessageIds.REQ_CURRENT_TIME, IncomingMessageIds.REQ_EXECUTIONS,
     IncomingMessageIds.REQ_HISTORICAL_DATA}

\* A router that lets a kind it has no handler for pass in silence.
unknown_kind_ignored(subs, acct, msg_id) == Outcome(subs, acct, <<>>)

\* _route_message lines 206-209: no handler for the kind.
unknown_kind(subs, acct, msg_id) ==
    Outcome(subs, acct,
            <<Frame(error_message(-1, ErrorCodes.UNKNOWN_ID,
                      "Unknown message ID: " \o ToString(msg_id)))>>)

_route_message(subs, acct, msg_id, fields) ==
    CASE msg_id = IncomingMessageIds.START_API ->
            _handle_start_api(subs, acct, parse_start_api(fields))
      [] msg_id = IncomingMessageIds.REQ_IDS -> _handle_req_ids(subs, acct)
      [] msg_id = IncomingMessageIds.REQ_MANAGED_ACCTS ->
            _handle_req_managed_accounts(subs, acct)
      [] msg_id = IncomingMessageIds.REQ_POSITIONS ->
            _handle_req_positions(subs, acct)
      [] msg_id = IncomingMessageIds.PLACE_ORDER ->
            _handle_place_order(subs, acct, parse_place_order(fields))
      [] msg_id = IncomingMessageIds.CANCEL_ORDER ->
            _handle_cancel_order(subs, acct, parse_cancel_order(fields))
      [] msg_id = IncomingMessageIds.REQ_OPEN_ORDERS ->
            _handle_req_open_orders(subs, acct)
      [] msg_id = IncomingMessageIds.REQ_SEC_DEF_OPT_PARAMS ->
            _handle_req_option_params(subs, acct,
                                      parse_req_sec_def_opt_params(fields))
      [] msg_id = IncomingMessageIds.REQ_CURRENT_TIME ->
            _handle_req_current_time(subs, acct)
      [] msg_id = IncomingMessageIds.REQ_EXECUTIONS ->
            _handle_req_executions(subs, acct, parse_req_executions(fields))
      [] msg_id = IncomingMessageIds.REQ_HISTORICAL_DATA ->
            _handle_req_historical_data(subs, acct,
                                        parse_req_historical_data(fields))
      [] msg_id = IncomingMessageIds.REQ_MKT_DATA ->
            _handle_req_market_data(subs, acct, parse_req_mkt_data(fields))
      [] msg_id = IncomingMessageIds.CANCEL_MKT_DATA ->
            _handle_cancel_market_data(subs, acct, parse_cancel_mkt_data(fields))
      [] msg_id = IncomingMessageIds.REQ_ACCT_DATA ->
            _handle_req_account_data(subs, acct, parse_req_acct_data(fields))
      [] msg_id = IncomingMessageIds.REQ_CONTRACT_DATA ->
            _handle_req_contract_details(subs, acct,
                                         parse_req_contract_details(fields))
      [] OTHER -> unknown_kind(subs, acct, msg_id)

\* A decoder that takes the kind of a frame without looking for it: fields[0]
\* raises IndexError on a frame with no field.
decode_message_unguarded(frame) ==
    IF frame = <<>> THEN [status |-> "raise"]
    ELSE IF IntOfText(frame[1]) = PyNone THEN [status |-> "raise"]
    ELSE [status |-> "ok", msg_id |-> IntOfText(frame[1]).v,
          fields |-> Tail(frame)]

\* MessageDecoder.decode_message on a complete frame: no field at all gives
\* (None, []); a first field that is no integer makes int() raise.
decode_message(frame) ==
    IF frame = <<>> THEN [status |-> "none"]
    ELSE IF IntOfText(frame[1]) = PyNone THEN [status |-> "raise"]
    ELSE [status |-> "ok", msg_id |-> IntOfText(frame[1]).v,
          fields |-> Tail(frame)]

\* A limiter that turns away the frame that reaches the limit.
check_rate_limit_below(count, last, t) ==
    LET reset == t - last > rate_limit_window
        c1 == (IF reset THEN 0 ELSE count) + 1
    IN  [count |-> c1,
         last |-> IF reset THEN t ELSE last,
         ok |-> c1 < message_rate_limit]

\* A limiter whose window never starts again.
check_rate_limit_one_window(count, last, t) ==
    [count |-> count + 1, last |-> last,
     ok |-> count + 1 <= message_rate_limit]

\* ClientHandler._check_rate_limit at time t
_check_rate_limit(count, last, t) ==
    LET reset == t - last > rate_limit_window
        c1 == (IF reset THEN 0 ELSE count) + 1
    IN  [count |-> c1,
         last |-> IF reset THEN t ELSE last,
         ok |-> c1 <= message_rate_limit]

\* An except clause that logs the exception and answers nothing.
answer_error_logged_only(out) == out

\* _process_message lines 162-165: an exception a handler ends with is logged
\* and answered with an error frame.
AnswerError(out) ==
    IF out.error = "" THEN out
    ELSE [out EXCEPT !.sends = @ \o
            <<Frame(error_message(-1, ErrorCodes.SERVER_ERROR, out.error))>>]

\* What a call of _process_message leaves behind, with the limiter's state.
Counted(res, rate) ==
    [out |-> res.out, decoded |-> res.decoded, routed |-> res.routed,
     handled |-> res.handled, excepted |-> res.excepted,
     count |-> rate.count, last |-> rate.last]

\* ClientHandler._process_message on one complete frame, at time t: whether
\* the frame was decoded, whether _route_message was called and whether it
\* found a handler, with what the call leaves behind.  An exception a handler
\* ends with is answered with ERR_MSG(-1, SERVER_ERROR, str(e)).
_process_message(subs, acct, count, last, frame, t) ==
    LET rate == _check_rate_limit(count, last, t)
        dec == decode_message(frame)
        none == Outcome(subs, acct, <<>>)
        routed == _route_message(subs, acct, dec.msg_id, dec.fields)
        res ==
            IF ~rate.ok
            THEN [out |-> Outcome(subs, acct,
                           <<Frame(error_message(-1,
                                     ErrorCodes.MAX_RATE_EXCEEDED,
                                     "Max message rate exceeded"))>>),
                  decoded |-> FALSE, routed |-> FALSE, handled |-> FALSE,
                  excepted |-> FALSE]
            ELSE IF dec.status = "none"
            THEN [out |-> none, decoded |-> TRUE, routed |-> FALSE,
                  handled |-> FALSE, excepted |-> FALSE]
            ELSE IF dec.status = "raise"
            THEN [out |-> Outcome(subs, acct,
                           <<Frame(error_message(-1, ErrorCodes.SERVER_ERROR,
                                     "invalid literal for int()"))>>),
                  decoded |-> TRUE, routed |-> FALSE, handled |-> FALSE,
                  excepted |-> TRUE]
            ELSE [out |-> AnswerError(routed),
                  decoded |-> TRUE, routed |-> TRUE,
                  handled |-> dec.msg_id \in HandledKinds,
                  excepted |-> routed.error # ""]
    IN  Counted(res, rate)

\* ------------------------------------------------------------------ sockets
\* A writer that puts a frame in front of what it wrote before.
send_raw_in_front(written, rec) == <<rec>> \o written

\* ClientHandler._send_raw: writer.write(data) hands the whole frame to the
\* transport in one call, behind everything written before.
_send_raw(written, rec) == Append(written, rec)

\* One call of _send_raw on connection c by the source (src, n): the frame is
\* logged as emitted and, when it lands, written.
Emit(c, src, n, frame, lands) ==
    LET rec == [k |-> Len(emitted[c]) + 1, src |-> src, n |-> n,
                frame |-> frame]
    IN  /\ emitted' = [emitted EXCEPT ![c] = Append(@, rec)]
        /\ wire' = [wire EXCEPT ![c] = IF lands THEN _send_raw(@, rec) ELSE @]

\* ----------------------------------------------------------------- listener
\* A check that lets one connection too many in.
AcceptAdmitsOneMore(registered) == ~(registered > max_clients)

\* IBSimulatorServer.handle_client line 121: the max-clients check
AcceptAdmits(registered) == ~(registered >= max_clients)

\* How a session ended: what ended its ingress loop ("none" while it runs),
\* the exception in flight when handle() is left, and what handle_client
\* raised when its task ended ("" when it returned).
NoExit == [cause |-> "none", inflight |-> "", raised |-> ""]

\* The subclasses of Exception among what a session can raise; CancelledError
\* is a BaseException.
IsException(e) == e \in {"ConnectionResetError", "ValueError", "TypeError"}

\* ClientHandler.handle lines 93-96: except asyncio.CancelledError and except
\* Exception both log and go on to the finally clause.
handle_lets_through(e) ==
    IF e = "CancelledError" \/ IsException(e) THEN "" ELSE e

\* ClientHandler.close lines 607-611: except Exception logs
close_lets_through(e) == IF IsException(e) THEN "" ELSE e

\* handle_client lines 141-142: except Exception logs
handle_client_lets_through(e) == IF IsException(e) THEN "" ELSE e

\* A clean-up that leaves the entry in the registry.
registry_entry_kept(registry, id) == registry

\* A clean-up that empties the registry.
registry_cleared(registry, id) == {}

\* A clean-up that deletes the entry under the client id the session holds.
registry_without_adopted(registry, id) == registry \ {client_id[id]}

\* handle_client lines 145-146: del self.clients[client_id] when it is there
registry_without(registry, id) == registry \ {id}

\* The codec at rest.
NoCodec == [st |-> "idle", fields |-> <<>>, data |-> <<>>,
            back |-> [status |-> "none"]]

\* stop() has not been called: the listener accepts.
NotStopping == [at |-> "running", todo |-> <<>>, lost |-> {}]

\* The listening sockets are open until stop() calls self.server.close().
Listening == stopping.at \in {"running", "clients"}

\* The server as start() leaves it: no connection yet.
InitServer ==
    /\ clients = {}
    /\ next_client_id = 1
    /\ now = 0
    /\ pc = [c \in Conns |-> "none"]
    /\ api_connected = [c \in Conns |-> FALSE]
    /\ client_version = [c \in Conns |-> PyNone]
    /\ connection_time = [c \in Conns |-> 0]
    /\ market_data_subscriptions = [c \in Conns |-> <<>>]
    /\ account_subscriptions = [c \in Conns |-> {}]
    /\ message_count = [c \in Conns |-> 0]
    /\ last_message_time = [c \in Conns |-> 0]
    /\ buffer = [c \in Conns |-> <<>>]
    /\ outq = [c \in Conns |-> <<>>]
    /\ eof = [c \in Conns |-> FALSE]
    /\ wire = [c \in Conns |-> <<>>]
    /\ tasks = {}
    /\ emitted = [c \in Conns |-> <<>>]
    /\ nread = [c \in Conns |-> 0]
    /\ nproc = [c \in Conns |-> 0]
    /\ first_read = [c \in Conns |-> <<>>]
    /\ dispatched = [c \in Conns |-> <<>>]
    /\ broadcasts = <<>>
    /\ cancel_log = [c \in Conns |-> {}]
    /\ client_id = [c \in Conns |-> 0]
    /\ rxbuf = [c \in Conns |-> <<>>]
    /\ naps = [c \in Conns |-> <<>>]
    /\ exit = [c \in Conns |-> NoExit]
    /\ rxlog = [c \in Conns |-> [n |-> 0, split |-> {}]]
    /\ store = [open |-> TRUE, failing |-> {}]
    /\ stopping = NotStopping

Init == InitServer /\ codec = NoCodec

\* A counter that stays where it is.
next_client_id_kept(id) == id

\* handle_client line 116: self.next_client_id += 1
next_client_id_bumped(id) == id + 1

\* IBSimulatorServer.handle_client up to its first await: the id is taken, the
\* connection is closed at once when the registry is full, and otherwise a
\* ClientHandler is created and registered.
Accept ==
    /\ Listening
    /\ next_client_id <= MaxAccepts
    /\ LET id == next_client_id
       IN  /\ next_client_id' = next_client_id_bumped(id)
           /\ IF AcceptAdmits(Cardinality(clients))
              THEN /\ clients' = clients \cup {id}
                   /\ pc' = [pc EXCEPT ![id] = "handshake"]
                   /\ connection_time' = [connection_time EXCEPT ![id] = now]
                   /\ last_message_time' = [last_message_time EXCEPT ![id] = now]
                   /\ client_id' = [client_id EXCEPT ![id] = id]
              ELSE /\ pc' = [pc EXCEPT ![id] = "rejected"]
                   /\ UNCHANGED <<clients, connection_time, last_message_time,
                                  client_id>>
    /\ UNCHANGED <<now, api_connected, client_version,
                   market_data_subscriptions, account_subscriptions,
                   message_count, buffer, outq, eof, wire, tasks, emitted,
                   nread, nproc, first_read, dispatched, broadcasts,
                   cancel_log, rxbuf, naps, exit, codec, rxlog,
                   store, stopping>>

\* --------------------------------------------------------------- handshake
API_PREFIX == <<"A", "P", "I", NUL>>

\* _handle_initial_handshake lines 109-126: the client version a first read
\* leaves in client_version (None when the prefix is missing).
HandshakeClientVersion(data) ==
    IF startswith(data, API_PREFIX)
    THEN LET parts == SplitBytes(data, NUL)
             raw == parts[2]
             version_str == IF raw # <<>> /\ raw[1] = "v" THEN Tail(raw)
                            ELSE raw
             pieces == SplitDots(version_str)
         IN  IF Len(pieces) > 1
             THEN IF Len(pieces) = 2 /\ IsDecimal(pieces[2])
                  THEN PyInt(DecimalValue(pieces[2])) ELSE PyInt(100)
             ELSE IF IsDecimal(version_str)
                  THEN PyInt(DecimalValue(version_str)) ELSE PyInt(100)
    ELSE PyNone

\* A handshake that answers no first read.
HandshakeAnswersNothing(data) == FALSE

\* A handshake that answers an empty first read as well.
handshake_answers_eof(data) == TRUE

\* _handle_initial_handshake lines 105-106 and 128-135: whether a first read
\* is answered with the server version and the session marked connected.  Only
\* an empty read (end of stream) is not.
HandshakeAnswers(data) == data # <<>>

\* The first read of handle(): on end of stream the handshake returns and the
\* ingress loop's read finds the stream ended; on anything else the reply is
\* written and the task awaits its drain.
HandshakeRead(c, data) ==
    /\ pc[c] = "handshake"
    /\ first_read' = [first_read EXCEPT ![c] = data]
    /\ IF HandshakeAnswers(data)
       THEN /\ client_version' =
                   [client_version EXCEPT ![c] = HandshakeClientVersion(data)]
            /\ Emit(c, "handshake", 0,
                    server_version(ProtocolVersion,
                                   TimeText(connection_time[c])), TRUE)
            /\ pc' = [pc EXCEPT ![c] = "hs_drain"]
            /\ eof' = [eof EXCEPT ![c] = data = <<>>]
       ELSE /\ pc' = [pc EXCEPT ![c] = "read"]
            /\ eof' = [eof EXCEPT ![c] = data = <<>>]
            /\ UNCHANGED <<client_version, wire, emitted>>
    /\ UNCHANGED <<clients, next_client_id, now, api_connected,
                   connection_time, market_data_subscriptions,
                   account_subscriptions, message_count, last_message_time,
                   buffer, outq, tasks, nread, nproc, dispatched, broadcasts,
                   cancel_log, client_id, rxbuf,
                   naps, exit, codec, rxlog,
                   store, stopping>>

\* The drain of the handshake reply returns: api_connected is set and the
\* ingress loop starts with an empty buffer.
HandshakeDone(c) ==
    /\ pc[c] = "hs_drain"
    /\ api_connected' = [api_connected EXCEPT ![c] = TRUE]
    /\ pc' = [pc EXCEPT ![c] = "read"]
    /\ UNCHANGED <<clients, next_client_id, now, client_version,
                   connection_time, market_data_subscriptions,
                   account_subscriptions, message_count, last_message_time,
                   buffer, outq, eof, wire, tasks, emitted, nread, nproc,
                   first_read, dispatched, broadcasts, cancel_log, client_id, rxbuf,
                   naps, exit, codec, rxlog,
                   store, stopping>>

\* ------------------------------------------------------------- ingress loop
\* The cancels a session has carried out, brought up to date for one handled
\* frame.  A CANCEL_MKT_DATA of a key the session holds adds an entry: the
\* key, the symbol it was subscribed to, how many broadcasts had been invoked
\* by then (at), and whether it was the only key of that symbol (only).  A
\* REQ_MKT_DATA ends live in the entries of its key and quiet in the entries
\* of its symbol.
Cancels(log, subs, frame) ==
    LET dec == decode_message(frame)
    IN  IF dec.msg_id = IncomingMessageIds.CANCEL_MKT_DATA
        THEN LET req_id == parse_cancel_mkt_data(dec.fields).req_id
             IN  IF dict_has(subs, req_id)
                 THEN LET symbol == (CHOOSE e \in {subs[i] : i \in 1..Len(subs)} :
                                        e.live /\ e.key = req_id).val.contract.symbol
                      IN  log \cup {[req_id |-> req_id, symbol |-> symbol,
                                     at |-> Len(broadcasts),
                                     only |-> KeysOf(subs, symbol) = {req_id},
                                     live |-> TRUE, quiet |-> TRUE]}
                 ELSE log
        ELSE IF dec.msg_id = IncomingMessageIds.REQ_MKT_DATA
        THEN LET data == parse_req_mkt_data(dec.fields)
             IN  {[e EXCEPT !.live = @ /\ e.req_id # data.req_id,
                            !.quiet = @ /\ e.symbol # data.contract.symbol]
                  : e \in log}
        ELSE log

\* handle() lines 78-91 on the first frame of buf: _process_message runs up to
\* its first await, the drain of the first frame it writes.  Where the task
\* waits next: in the handler when it has more to send, else at the drain of
\* the last frame (or straight on) when buf holds another frame, else at read.
ProcessHead(c, buf) ==
    \E r \in {_process_message(market_data_subscriptions[c],
                                account_subscriptions[c], message_count[c],
                                last_message_time[c], Head(buf), now)} :
        LET sends == r.out.sends
            n == nproc[c] + 1
            rest == IF sends = <<>> THEN <<>> ELSE Tail(sends)
            cid == IF r.out.client_id = PyNone THEN client_id[c]
                   ELSE r.out.client_id.v
        IN  /\ nproc' = [nproc EXCEPT ![c] = n]
            /\ message_count' = [message_count EXCEPT ![c] = r.count]
            /\ last_message_time' = [last_message_time EXCEPT ![c] = r.last]
            /\ market_data_subscriptions' =
                   [market_data_subscriptions EXCEPT ![c] = r.out.subs]
            /\ account_subscriptions' =
                   [account_subscriptions EXCEPT ![c] = r.out.acct]
            /\ dispatched' = [dispatched EXCEPT ![c] = Append(@,
                   [frame |-> Head(buf), t |-> now, count |-> r.count,
                    last |-> r.last, decoded |-> r.decoded, routed |-> r.routed,
                    handled |-> r.handled, excepted |-> r.excepted,
                    failing |-> {q \in StoreQueries : StoreFails(q)},
                    before |-> [subs |-> market_data_subscriptions[c],
                                acct |-> account_subscriptions[c]],
                    after |-> [subs |-> r.out.subs, acct |-> r.out.acct],
                    sends |-> Len(FramesOf(sends)),
                    client_id |-> [before |-> client_id[c], after |-> cid]])]
            /\ client_id' = [client_id EXCEPT ![c] = cid]
            /\ cancel_log' = [cancel_log EXCEPT ![c] =
                   IF r.handled
                   THEN Cancels(@, market_data_subscriptions[c], Head(buf))
                   ELSE @]
            /\ IF sends = <<>>
               THEN UNCHANGED <<wire, emitted>>
               ELSE Emit(c, "handler", n,
                         Resolve(Head(sends), now, cid, Cardinality(clients)), TRUE)
            /\ outq' = [outq EXCEPT ![c] = rest]
            /\ buffer' = [buffer EXCEPT ![c] = Tail(buf)]
            /\ pc' = [pc EXCEPT ![c] =
                   IF rest # <<>> THEN "send"
                   ELSE IF Tail(buf) # <<>> THEN "ready" ELSE "read"]

\* A read of the ingress loop returns the complete frames in data, which join
\* the (empty) buffer; the first of them is processed at once.  The client
\* sends no more than cap frames in all.
Read(c, data, cap) ==
    /\ pc[c] = "read"
    /\ ~eof[c]
    /\ data # <<>>
    /\ nread[c] + Len(data) <= cap
    /\ nread' = [nread EXCEPT ![c] = @ + Len(data)]
    /\ ProcessHead(c, buffer[c] \o data)
    /\ UNCHANGED <<clients, next_client_id, now, api_connected,
                   client_version, connection_time, eof, tasks, first_read,
                   broadcasts, rxbuf, naps, exit, codec, rxlog,
                   store, stopping>>

\* A read of the ingress loop returns the bytes chunk, which join the bytes
\* left in the buffer.  Without a complete frame in them the loop reads again;
\* otherwise the complete frames are taken off the front and the first of them
\* is processed at once.  split holds the frames of the stream that this read
\* ends inside.
ReadBytes(c, chunk, split) ==
    /\ pc[c] = "read"
    /\ ~eof[c]
    /\ chunk # <<>>
    /\ rxlog' = [rxlog EXCEPT ![c] = [n |-> @.n + Len(chunk),
                                      split |-> @.split \cup split]]
    /\ \E ex \in {ExtractFrames(rxbuf[c] \o chunk)} :
           /\ rxbuf' = [rxbuf EXCEPT ![c] = ex.rest]
           /\ nread' = [nread EXCEPT ![c] = @ + Len(ex.frames)]
           /\ IF ex.frames = <<>>
              THEN UNCHANGED <<pc, market_data_subscriptions,
                               account_subscriptions, message_count,
                               last_message_time, buffer, outq, wire, emitted,
                               nproc, dispatched, cancel_log, client_id>>
              ELSE \E buf \in {buffer[c] \o [i \in 1..Len(ex.frames) |->
                                                TextFrame(ex.frames[i])]} :
                       ProcessHead(c, buf)
    /\ UNCHANGED <<clients, next_client_id, now, api_connected,
                   client_version, connection_time, eof, tasks, first_read,
                   broadcasts, naps, exit, codec,
                   store, stopping>>

\* The drain of a handler's last frame returns and the loop goes on with the
\* next frame of the buffer.
Continue(c) ==
    /\ pc[c] = "ready"
    /\ ProcessHead(c, buffer[c])
    /\ UNCHANGED <<clients, next_client_id, now, api_connected,
                   client_version, connection_time, eof, tasks, nread,
                   first_read, broadcasts, rxbuf, naps, exit, codec, rxlog,
                   store, stopping>>

\* A drain inside a handler returns and the handler writes its next frame.
Send(c) ==
    /\ pc[c] = "send"
    /\ Head(outq[c]).op # "nap"
    /\ Emit(c, "handler", nproc[c],
            Resolve(Head(outq[c]), now, client_id[c], Cardinality(clients)),
            TRUE)
    /\ outq' = [outq EXCEPT ![c] = Tail(@)]
    /\ pc' = [pc EXCEPT ![c] =
           IF Tail(outq[c]) # <<>> THEN "send"
           ELSE IF buffer[c] # <<>> THEN "ready" ELSE "read"]
    /\ UNCHANGED <<clients, next_client_id, now, api_connected,
                   client_version, connection_time,
                   market_data_subscriptions, account_subscriptions,
                   message_count, last_message_time, buffer, eof, tasks,
                   nread, nproc, first_read, dispatched, broadcasts,
                   cancel_log, client_id, rxbuf,
                   naps, exit, codec, rxlog,
                   store, stopping>>

\* A sleep that gives the ingress loop its turn: the handler is left with the
\* frame behind the sleep still to send.
sleep_yields_to_loop(c) ==
    /\ pc[c] = "send"
    /\ Head(outq[c]).op = "nap"
    /\ outq' = [outq EXCEPT ![c] = Tail(@)]
    /\ naps' = [naps EXCEPT ![c] =
           Append(@, [n |-> nproc[c], k |-> Len(emitted[c])])]
    /\ pc' = [pc EXCEPT ![c] = IF buffer[c] # <<>> THEN "ready" ELSE "send"]
    /\ UNCHANGED <<clients, next_client_id, now, api_connected,
                   client_version, connection_time,
                   market_data_subscriptions, account_subscriptions,
                   message_count, last_message_time, buffer, eof, wire, tasks,
                   emitted, nread, nproc, first_read, dispatched, broadcasts,
                   cancel_log, client_id, rxbuf, exit, codec, rxlog,
                   store, stopping>>

\* The drain before an asyncio.sleep in a handler returns and the handler goes
\* to sleep; the sleep's return is the Send of the frame behind it.
Sleep(c) ==
    /\ pc[c] = "send"
    /\ Head(outq[c]).op = "nap"
    /\ outq' = [outq EXCEPT ![c] = Tail(@)]
    /\ naps' = [naps EXCEPT ![c] =
           Append(@, [n |-> nproc[c], k |-> Len(emitted[c])])]
    /\ UNCHANGED <<clients, next_client_id, now, pc, api_connected,
                   client_version, connection_time,
                   market_data_subscriptions, account_subscriptions,
                   message_count, last_message_time, buffer, eof, wire, tasks,
                   emitted, nread, nproc, first_read, dispatched, broadcasts,
                   cancel_log, client_id, rxbuf, exit, codec, rxlog,
                   store, stopping>>

\* A read of the ingress loop returns no data: the loop ends and close() closes
\* the writer and awaits wait_closed.
ReadEOF(c) ==
    /\ pc[c] = "read"
    /\ eof' = [eof EXCEPT ![c] = TRUE]
    /\ pc' = [pc EXCEPT ![c] = "closing"]
    /\ exit' = [exit EXCEPT ![c].cause = "eof"]
    /\ UNCHANGED <<clients, next_client_id, now, api_connected,
                   client_version, connection_time,
                   market_data_subscriptions, account_subscriptions,
                   message_count, last_message_time, buffer, outq, wire,
                   tasks, emitted, nread, nproc, first_read, dispatched,
                   broadcasts, cancel_log, client_id, rxbuf,
                   naps, codec, rxlog,
                   store, stopping>>

\* The ingress loop of a session ends with the exception e: a read or a drain
\* raised it, or the task was cancelled.  handle()'s except clauses run and
\* its finally clause calls close(), which closes the writer and awaits
\* wait_closed.
IngressRaises(c, e, cause) ==
    /\ pc' = [pc EXCEPT ![c] = "closing"]
    /\ exit' = [exit EXCEPT ![c].cause = cause,
                            ![c].inflight = handle_lets_through(e)]

\* reader.read raises in the handshake or in the ingress loop: the peer reset
\* the connection.
ReadError(c) ==
    /\ pc[c] \in {"handshake", "read"}
    /\ ~eof[c]
    /\ IngressRaises(c, "ConnectionResetError", "error")
    /\ UNCHANGED <<clients, next_client_id, now, api_connected,
                   client_version, connection_time,
                   market_data_subscriptions, account_subscriptions,
                   message_count, last_message_time, buffer, outq, eof, wire,
                   tasks, emitted, nread, nproc, first_read, dispatched,
                   broadcasts, cancel_log, client_id, rxbuf, naps, codec,
                   rxlog,
                   store, stopping>>

\* writer.drain raises in _send_raw, which logs and raises again.  In the
\* handshake the exception leaves _handle_initial_handshake; in a handler
\* _process_message catches it and calls _send_error, whose frame the closed
\* transport drops and whose drain raises once more, out of the ingress loop.
\* When the drain that raises is the one of the except clause's own _send_error
\* the exception leaves the ingress loop at once.
DrainError(c) ==
    /\ \/ pc[c] = "hs_drain"
       \/ pc[c] = "send"
       \/ pc[c] = "ready" /\ dispatched[c][nproc[c]].sends > 0
    /\ IF \/ pc[c] = "hs_drain"
          \/ pc[c] = "ready" /\ dispatched[c][nproc[c]].excepted
       THEN UNCHANGED <<wire, emitted>>
       ELSE Emit(c, "handler", nproc[c],
                 error_message(-1, ErrorCodes.SERVER_ERROR, "Connection lost"),
                 FALSE)
    /\ outq' = [outq EXCEPT ![c] = <<>>]
    /\ IngressRaises(c, "ConnectionResetError", "error")
    /\ UNCHANGED <<clients, next_client_id, now, api_connected,
                   client_version, connection_time,
                   market_data_subscriptions, account_subscriptions,
                   message_count, last_message_time, buffer, eof, tasks,
                   nread, nproc, first_read, dispatched, broadcasts,
                   cancel_log, client_id, rxbuf, naps, codec, rxlog,
                   store, stopping>>

\* The task of a session is cancelled while it waits in the handshake or in
\* the ingress loop: CancelledError is raised at the await.
Cancel(c) ==
    /\ Open(c)
    /\ IngressRaises(c, "CancelledError", "cancelled")
    /\ outq' = [outq EXCEPT ![c] = <<>>]
    /\ UNCHANGED <<clients, next_client_id, now, api_connected,
                   client_version, connection_time,
                   market_data_subscriptions, account_subscriptions,
                   message_count, last_message_time, buffer, eof, wire, tasks,
                   emitted, nread, nproc, first_read, dispatched, broadcasts,
                   cancel_log, client_id, rxbuf, naps, codec, rxlog,
                   store, stopping>>

\* wait_closed ends, returning (e = "") or raising e; close() and handle()
\* are left, and handle_client's finally clause removes the entry before the
\* task ends, with what is still in flight then.
CloseEnds(c, e) ==
    /\ pc[c] = "closing"
    /\ clients' = registry_without(clients, c)
    /\ LET x == IF close_lets_through(e) # "" THEN close_lets_through(e)
                ELSE exit[c].inflight
           raised == handle_client_lets_through(x)
       IN  /\ pc' = [pc EXCEPT ![c] =
                  IF raised = "" THEN "closed" ELSE "aborted"]
           /\ exit' = [exit EXCEPT ![c].raised = raised]
    /\ UNCHANGED <<next_client_id, now, api_connected, client_version,
                   connection_time, market_data_subscriptions,
                   account_subscriptions, message_count, last_message_time,
                   buffer, outq, eof, wire, tasks, emitted, nread, nproc,
                   first_read, dispatched, broadcasts, cancel_log, client_id,
                   rxbuf, naps, codec, rxlog,
                   store, stopping>>

\* wait_closed returns, handle() ends and handle_client removes the entry.
Closed(c) == CloseEnds(c, "")

\* The clock advances by one tick.
Tick ==
    /\ now < MaxTime
    /\ now' = now + 1
    /\ UNCHANGED <<clients, next_client_id, pc, api_connected, client_version,
                   connection_time, market_data_subscriptions,
                   account_subscriptions, message_count, last_message_time,
                   buffer, outq, eof, wire, tasks, emitted, nread, nproc,
                   first_read, dispatched, broadcasts, cancel_log, client_id, rxbuf,
                   naps, exit, codec, rxlog,
                   store, stopping>>

\* ---------------------------------------------------------------- broadcast
\* A sink that tests last before ask.
tick_order_last_first ==
    <<[field |-> "bid", price |-> TRUE, tick_type |-> 1],
      [field |-> "last", price |-> TRUE, tick_type |-> 4],
      [field |-> "ask", price |-> TRUE, tick_type |-> 2],
      [field |-> "bid_size", price |-> FALSE, tick_type |-> 0],
      [field |-> "ask_size", price |-> FALSE, tick_type |-> 3],
      [field |-> "volume", price |-> FALSE, tick_type |-> 8]>>

\* send_market_data lines 590-603: the ticks one matching descriptor gets, in
\* the order of the six membership tests.
TickOrder ==
    <<[field |-> "bid", price |-> TRUE, tick_type |-> 1],
      [field |-> "ask", price |-> TRUE, tick_type |-> 2],
      [field |-> "last", price |-> TRUE, tick_type |-> 4],
      [field |-> "bid_size", price |-> FALSE, tick_type |-> 0],
      [field |-> "ask_size", price |-> FALSE, tick_type |-> 3],
      [field |-> "volume", price |-> FALSE, tick_type |-> 8]>>

TickFrame(req_id, tick, data) ==
    IF tick.price THEN tick_price(req_id, tick.tick_type, data[tick.field])
    ELSE tick_size(req_id, tick.tick_type, data[tick.field])

\* The membership tests of TickOrder from position tpos on that succeed.
TicksLeft(data, tpos) ==
    {k \in tpos..Len(TickOrder) : TickOrder[k].field \in DOMAIN data}

\* One send_market_data task runs from where it stands to its next await.  The
\* task holds a dict iterator (di_used, di_len, di_pos as in CPython's
\* dictiter), the key of the descriptor it is at (req_id) and the position
\* tpos of the next membership test.  It stops at the first frame it writes
\* (out); it ends "done" when the iterator is exhausted and "failed" when the
\* iterator raises RuntimeError because the dict changed under it.
RECURSIVE RunDelivery(_, _)
RunDelivery(t, entries) ==
    IF TicksLeft(t.data, t.tpos) # {}
    THEN LET k == CHOOSE i \in TicksLeft(t.data, t.tpos) :
                      \A j \in TicksLeft(t.data, t.tpos) : i <= j
         IN  [t |-> [t EXCEPT !.tpos = k + 1],
              out |-> <<TickFrame(t.req_id, TickOrder[k], t.data)>>]
    ELSE IF t.di_used # dict_used(entries)
    THEN [t |-> [t EXCEPT !.st = "failed"], out |-> <<>>]
    ELSE LET live == {i \in (t.di_pos + 1)..Len(entries) : entries[i].live}
         IN  IF live = {}
             THEN [t |-> [t EXCEPT !.st = "done"], out |-> <<>>]
             ELSE IF t.di_len = 0
             THEN [t |-> [t EXCEPT !.st = "failed"], out |-> <<>>]
             ELSE LET i == CHOOSE x \in live : \A y \in live : x <= y
                      t1 == [t EXCEPT !.di_pos = i, !.di_len = @ - 1]
                  IN  IF entries[i].val.contract.symbol = t.symbol
                      THEN RunDelivery([t1 EXCEPT !.req_id = entries[i].key,
                                                  !.tpos = 1], entries)
                      ELSE RunDelivery([t1 EXCEPT !.tpos = Len(TickOrder) + 1],
                                       entries)

\* The task as it is when its coroutine starts: the iterator is created over
\* the dict as it is then.
StartDelivery(t, entries) ==
    [t EXCEPT !.st = "iter", !.di_used = dict_used(entries),
              !.di_len = dict_used(entries), !.di_pos = 0,
              !.tpos = Len(TickOrder) + 1]

\* IBSimulatorServer.broadcast_market_data: one task per registered client
\* that is subscribed to the symbol; the call itself awaits nothing.
BroadcastTargets(symbol) ==
    {c \in clients :
        is_subscribed_to_symbol(market_data_subscriptions[c], symbol)}

Broadcast(symbol, data) ==
    /\ Len(broadcasts) < MaxBroadcasts
    /\ LET b == Len(broadcasts) + 1
       IN  /\ tasks' = tasks \cup
                  {[b |-> b, c |-> c, symbol |-> symbol, data |-> data,
                    st |-> "new", di_used |-> 0, di_len |-> 0, di_pos |-> 0,
                    req_id |-> PyNone, tpos |-> Len(TickOrder) + 1]
                   : c \in BroadcastTargets(symbol)}
           /\ broadcasts' = Append(broadcasts,
                  [symbol |-> symbol, data |-> data,
                   holders |-> [c \in Conns |->
                       IF c \in clients
                       THEN KeysOf(market_data_subscriptions[c], symbol)
                       ELSE {}]])
    /\ UNCHANGED <<clients, next_client_id, now, pc, api_connected,
                   client_version, connection_time,
                   market_data_subscriptions, account_subscriptions,
                   message_count, last_message_time, buffer, outq, eof, wire,
                   emitted, nread, nproc, first_read, dispatched, cancel_log, client_id, rxbuf,
                   naps, exit, codec, rxlog,
                   store, stopping>>

\* Whether a frame written to c's transport can reach the socket, and whether
\* the drain after it can raise.  After close(), a write is dropped unless
\* earlier data is still waiting in the transport; once the connection is
\* lost every write is dropped and drain raises ConnectionResetError.
WriteLands(c) ==
    CASE pc[c] = "closed" -> {FALSE}
      [] pc[c] = "closing" -> {TRUE, FALSE}
      [] OTHER -> {TRUE}

DrainRaises(c) ==
    CASE pc[c] = "closed" -> {TRUE}
      [] pc[c] = "closing" -> {TRUE, FALSE}
      [] OTHER -> {FALSE}

\* A send_market_data task is scheduled: it runs to its next await, or ends.
Deliver(t) ==
    /\ t \in tasks
    /\ t.st \in {"new", "iter"}
    /\ LET entries == market_data_subscriptions[t.c]
           r == RunDelivery(IF t.st = "new" THEN StartDelivery(t, entries)
                            ELSE t, entries)
       IN  IF r.out = <<>>
           THEN /\ tasks' = (tasks \ {t}) \cup {r.t}
                /\ UNCHANGED <<wire, emitted>>
           ELSE \E lands \in WriteLands(t.c), raises \in DrainRaises(t.c) :
                /\ Emit(t.c, "delivery", t.b, r.out[1], lands)
                /\ tasks' = (tasks \ {t}) \cup
                       {IF raises THEN [r.t EXCEPT !.st = "failed"] ELSE r.t}
    /\ UNCHANGED <<clients, next_client_id, now, pc, api_connected,
                   client_version, connection_time,
                   market_data_subscriptions, account_subscriptions,
                   message_count, last_message_time, buffer, outq, eof,
                   nread, nproc, first_read, dispatched, broadcasts,
                   cancel_log, client_id, rxbuf,
                   naps, exit, codec, rxlog,
                   store, stopping>>

\* -------------------------------------------------------------- environment
\* What the peers send and what the market-data source broadcasts.
HS_RANGE == <<"A", "P", "I", NUL, "v", "1", "0", "0", ".", ".", "1", "7", "6", NUL>>
HS_PLAIN == <<"A", "P", "I", NUL, "1", "7", "6", NUL>>
HS_OTHER == <<"G", "E", "T", NUL>>
HS_EOF == <<>>

MktDataFrame(req_id, symbol) ==
    <<ToString(IncomingMessageIds.REQ_MKT_DATA), ToString(req_id), "0",
      symbol, "STK">>
CancelFrame(req_id) ==
    <<ToString(IncomingMessageIds.CANCEL_MKT_DATA), ToString(req_id)>>
AcctDataFrame(subscribe, account_code) ==
    <<ToString(IncomingMessageIds.REQ_ACCT_DATA), subscribe, account_code>>
ContractDataFrame(req_id, symbol) ==
    <<ToString(IncomingMessageIds.REQ_CONTRACT_DATA), ToString(req_id), "0",
      symbol, "STK">>

StartApiFrame(id) ==
    <<ToString(IncomingMessageIds.START_API), id, "">>
StartApiBare == <<ToString(IncomingMessageIds.START_API)>>
PlaceOrderFrame(order_id, symbol) ==
    <<ToString(IncomingMessageIds.PLACE_ORDER), ToString(order_id), "0",
      symbol, "STK">>
CancelOrderFrame(order_id) ==
    <<ToString(IncomingMessageIds.CANCEL_ORDER), ToString(order_id)>>
UnknownKindFrame == <<"9999">>
PositionsMultiFrame ==
    <<ToString(IncomingMessageIds.REQ_POSITIONS_MULTI), "1", "", "">>

BidOnly == [f \in {"bid"} |-> PyFloat("1.0")]
BidAndVolume ==
    [f \in {"bid", "volume"} |->
        IF f = "bid" THEN PyFloat("1.0") ELSE PyInt(500)]

\* The connections whose peers talk in the specifications that follow one
\* session; the peers of the others stay silent.
Talkers == {1}

\* ------------------------------------------------- a session and a broadcast
\* One session beside the market-data source: a subscription, a cancel, end
\* of stream, and deliveries running between the handler's awaits and after
\* the socket is closed.
SessionHandshakes == {HS_RANGE, HS_EOF}
SessionFrames == {MktDataFrame(10, "X"), CancelFrame(10)}
SessionTicks == {BidAndVolume}

Next ==
    \/ Accept
    \/ \E c \in Talkers, data \in SessionHandshakes : HandshakeRead(c, data)
    \/ \E c \in Talkers : HandshakeDone(c)
    \/ \E c \in Talkers, f \in SessionFrames : Read(c, <<f>>, MaxFrames)
    \/ \E c \in Talkers : Send(c)
    \/ \E c \in Talkers : ReadEOF(c)
    \/ \E c \in Talkers : Closed(c)
    \/ \E data \in SessionTicks : Broadcast("X", data)
    \/ \E t \in tasks : Deliver(t)

Spec == Init /\ [][Next]_vars

\* ------------------------------------------------- cancels and broadcasts
\* One session that subscribes a symbol under two keys and cancels one of
\* them, in any order, beside a broadcast of the symbol.
CancelFrames == {MktDataFrame(10, "X"), MktDataFrame(20, "X"), CancelFrame(10)}

NextCancel ==
    \/ Accept
    \/ \E c \in Talkers : HandshakeRead(c, HS_RANGE)
    \/ \E c \in Talkers : HandshakeDone(c)
    \/ \E c \in Talkers, f \in CancelFrames : Read(c, <<f>>, MaxFrames)
    \/ \E c \in Talkers : Send(c)
    \/ Broadcast("X", BidOnly)
    \/ \E t \in tasks : Deliver(t)

SpecCancel == Init /\ [][NextCancel]_vars

\* ------------------------------------------------ bursts beside a broadcast
\* One session whose handlers answer with bursts (the seven initial ticks, the
\* account download, the contract details) while a broadcast is delivered.
BurstFrames ==
    {MktDataFrame(10, "X"), AcctDataFrame("1", ""), ContractDataFrame(10, "X")}

NextBurst ==
    \/ Accept
    \/ \E c \in Talkers : HandshakeRead(c, HS_RANGE)
    \/ \E c \in Talkers : HandshakeDone(c)
    \/ \E c \in Talkers, f \in BurstFrames : Read(c, <<f>>, MaxFrames)
    \/ \E c \in Talkers : Send(c)
    \/ Broadcast("X", BidOnly)
    \/ \E t \in tasks : Deliver(t)

SpecBurst == Init /\ [][NextBurst]_vars

\* ------------------------------------------------------------------ fan-out
\* Every admitted session talks.  The first subscribes X under two keys and
\* then cancels the first of them; each other one subscribes X or Y once.
FanoutScript == <<MktDataFrame(10, "X"), MktDataFrame(11, "X"), CancelFrame(10)>>

FanoutFrames(c) ==
    IF c \in Talkers
    THEN {FanoutScript[k] : k \in {nread[c] + 1} \cap DOMAIN FanoutScript}
    ELSE {MktDataFrame(20, "X"), MktDataFrame(20, "Y")}

FanoutCap(c) == IF c \in Talkers THEN Len(FanoutScript) ELSE 1

NextFanout ==
    \/ Accept
    \/ \E c \in Conns : HandshakeRead(c, HS_RANGE)
    \/ \E c \in Conns : HandshakeDone(c)
    \/ \E c \in Conns : \E f \in FanoutFrames(c) : Read(c, <<f>>, FanoutCap(c))
    \/ \E c \in Conns : Send(c)
    \/ Broadcast("X", BidOnly)
    \/ \E t \in tasks : Deliver(t)

SpecFanout == Init /\ [][NextFanout]_vars

\* ------------------------------------------------------------- rate limiter
\* One session that sends up to two frames more than the limit, one or two to
\* a read, while the clock runs.
RateFrames == {MktDataFrame(10, "X"), CancelFrame(10)}
RateReads ==
    {<<f>> : f \in RateFrames} \cup (RateFrames \X RateFrames)

NextRate ==
    \/ Accept
    \/ \E c \in Talkers : HandshakeRead(c, HS_RANGE)
    \/ \E c \in Talkers : HandshakeDone(c)
    \/ \E c \in Talkers, data \in RateReads :
           Read(c, data, message_rate_limit + 2)
    \/ \E c \in Talkers : Continue(c)
    \/ \E c \in Talkers : Send(c)
    \/ Tick

SpecRate == Init /\ [][NextRate]_vars

\* ----------------------------------------------------- listener and handshake
\* Every peer makes some first read and then closes, while the clock runs and
\* further connections arrive.
HS_V == <<"A", "P", "I", NUL, "v", "1", "7", "6", NUL>>
HS_BARE_RANGE == <<"A", "P", "I", NUL, "1", "0", "0", ".", ".", "1", "7", "6", NUL>>
HS_WORD == <<"A", "P", "I", NUL, "v", "x", NUL>>
ListenerHandshakes(c) ==
    IF c \in Talkers
    THEN {HS_RANGE, HS_BARE_RANGE, HS_V, HS_PLAIN, HS_WORD, HS_OTHER, HS_EOF}
    ELSE {HS_RANGE, HS_EOF}

NextListener ==
    \/ Accept
    \/ \E c \in Conns : \E data \in ListenerHandshakes(c) : HandshakeRead(c, data)
    \/ \E c \in Conns : HandshakeDone(c)
    \/ \E c \in Conns : ReadEOF(c)
    \/ \E c \in Conns : Closed(c)
    \/ Tick

SpecListener == Init /\ [][NextListener]_vars

\* ------------------------------------------------------------------ requests
\* One session that sends up to MaxFrames requests, one to a read or two with
\* a frame of an unknown kind in front: frames of kinds without a handler (one
\* of them a kind of the catalogue), START_API with and without a client id,
\* account subscriptions for the configured account and for one the store does
\* not hold, market-data subscriptions under one key, an order and its cancel.
DispatchFrames ==
    {UnknownKindFrame, PositionsMultiFrame, StartApiFrame("7"), StartApiBare,
     AcctDataFrame("1", ""), AcctDataFrame("1", "DU999999"),
     MktDataFrame(10, "X"), MktDataFrame(10, "Y"), PlaceOrderFrame(42, "X"),
     CancelOrderFrame(42)}

NextDispatch ==
    \/ Accept
    \/ \E c \in Talkers : HandshakeRead(c, HS_RANGE)
    \/ \E c \in Talkers : HandshakeDone(c)
    \/ \E c \in Talkers, f \in DispatchFrames : Read(c, <<f>>, MaxFrames)
    \/ \E c \in Talkers, f \in DispatchFrames :
          Read(c, <<UnknownKindFrame, f>>, MaxFrames)
    \/ \E c \in Talkers : Continue(c)
    \/ \E c \in Talkers : Send(c)
    \/ \E c \in Talkers : Sleep(c)

SpecDispatch == Init /\ [][NextDispatch]_vars

\* ----------------------------------------------------------------- failures
\* Sessions that end in every way: end of stream, a reset met by a read or by
\* a drain, cancellation before and during close().  The peer of the first
\* sends a frame whose kind is no integer (int() raises in the decoder), a
\* PLACE_ORDER without an order id (the handler raises) and a subscription;
\* the peer of the second sends one subscription and the third none.
\* wait_closed raises the reset when the connection was lost to one.
MaxFailureFrames == 2

FailureFrames ==
    {<<"X">>, <<ToString(IncomingMessageIds.PLACE_ORDER)>>,
     MktDataFrame(10, "X")}

Bystanders == {2}

CloseErrors(c) ==
    IF exit[c].cause = "error" THEN {"ConnectionResetError"} ELSE {""}

NextFailure ==
    \/ Accept
    \/ \E c \in Conns : HandshakeRead(c, HS_RANGE)
    \/ \E c \in Conns : HandshakeDone(c)
    \/ \E c \in Talkers, f \in FailureFrames : Read(c, <<f>>, MaxFailureFrames)
    \/ \E c \in Bystanders : Read(c, <<MktDataFrame(10, "X")>>, 1)
    \/ \E c \in Conns : Send(c)
    \/ \E c \in Conns : ReadEOF(c)
    \/ \E c \in Conns : ReadError(c)
    \/ \E c \in Conns : DrainError(c)
    \/ \E c \in Conns : Cancel(c)
    \/ \E c \in Conns : \E e \in CloseErrors(c) : CloseEnds(c, e)
    \/ \E c \in Conns : CloseEnds(c, "CancelledError")

SpecFailure == Init /\ [][NextFailure]_vars

\* The event loop closes the transport of a writer that was closed, so that
\* wait_closed ends, as long as the peer takes or drops what is still to be
\* flushed.
FairFailure ==
    \A c \in Conns : WF_vars(\E e \in CloseErrors(c) : CloseEnds(c, e))

SpecCleanup == SpecFailure /\ FairFailure

\* ------------------------------------------------------------ partial frames
\* One session whose peer sends three frames (a kind without a handler, a
\* frame with no field, a START_API) as one stream of bytes, cut into reads at
\* any place.
IngressScript == <<<<PyInt(9999)>>, <<>>, <<PyInt(71), PyInt(7), PyStr(<<>>)>>>>

RECURSIVE StreamOf(_)
StreamOf(script) ==
    IF script = <<>> THEN <<>>
    ELSE encode_wire(Head(script)) \o StreamOf(Tail(script))

IngressStream == StreamOf(IngressScript)

\* Where the j-th frame of the stream ends.
FrameEnd(j) == Len(StreamOf(SubSeq(IngressScript, 1, j)))

\* The frames of the stream that a read ending after n bytes ends inside.
SplitAt(n) ==
    {j \in 1..Len(IngressScript) : FrameEnd(j - 1) < n /\ n < FrameEnd(j)}

NextIngress ==
    \/ Accept
    \/ \E c \in Talkers : HandshakeRead(c, HS_RANGE)
    \/ \E c \in Talkers : HandshakeDone(c)
    \/ \E c \in Talkers :
          \E k \in 1..(Len(IngressStream) - rxlog[c].n) :
              ReadBytes(c, SubSeq(IngressStream, rxlog[c].n + 1, rxlog[c].n + k),
                        SplitAt(rxlog[c].n + k))
    \/ \E c \in Talkers : Continue(c)
    \/ \E c \in Talkers : Send(c)

SpecIngress == Init /\ [][NextIngress]_vars

\* -------------------------------------------------------------------- codec
\* A field vector is encoded and what comes out is decoded, whole or cut short.
\* The vectors: one to three fields of every type, the empty ones and one with
\* a NUL inside among them, led by an integer, a numeral or a word.
CodecHeads ==
    {PyInt(0), PyInt(8), PyInt(71), PyInt(-1), PyStr(<<"7", "1">>),
     PyStr(<<"X">>)}

CodecFields ==
    {PyNone, PyBool(TRUE), PyBool(FALSE), PyInt(-1), PyInt(10), PyStr(<<>>),
     PyStr(<<"X">>), PyStr(<<"a", NUL, "b">>),
     PyFloat(<<"9", "9", ".", "9", "9">>)}

CodecVectors ==
    {<<a>> : a \in CodecHeads}
        \cup {<<a, b>> : a \in CodecHeads, b \in CodecFields}
        \cup {<<a, b, d>> : a \in CodecHeads, b \in CodecFields,
                            d \in CodecFields}

InitCodec ==
    /\ InitServer
    /\ codec \in {[NoCodec EXCEPT !.st = "in", !.fields = F] : F \in CodecVectors}

\* encode_fields(F)
CodecEncode ==
    /\ codec.st = "in"
    /\ codec' = [codec EXCEPT !.st = "wire", !.data = encode_wire(codec.fields)]
    /\ UNCHANGED <<clients, next_client_id, now, pc, api_connected,
                   client_version, connection_time,
                   market_data_subscriptions, account_subscriptions,
                   message_count, last_message_time, buffer, outq, eof, wire,
                   tasks, emitted, nread, nproc, first_read, dispatched,
                   broadcasts, cancel_log, client_id, rxbuf, naps, exit,
                   rxlog,
                   store, stopping>>

\* decode_message on the first n bytes of the encoded vector
CodecDecode(n) ==
    /\ codec.st = "wire"
    /\ codec' = [codec EXCEPT !.st = IF n = Len(codec.data) THEN "out" ELSE "cut",
                              !.back = decode_wire(SubSeq(codec.data, 1, n))]
    /\ UNCHANGED <<clients, next_client_id, now, pc, api_connected,
                   client_version, connection_time,
                   market_data_subscriptions, account_subscriptions,
                   message_count, last_message_time, buffer, outq, eof, wire,
                   tasks, emitted, nread, nproc, first_read, dispatched,
                   broadcasts, cancel_log, client_id, rxbuf, naps, exit,
                   rxlog,
                   store, stopping>>

NextCodec ==
    \/ CodecEncode
    \/ \E n \in {Len(codec.data) - 1, Len(codec.data)} : CodecDecode(n)

SpecCodec == InitCodec /\ [][NextCodec]_vars

\* --------------------------------------------------------------- properties
\* The frames a source wrote on connection c, as positions of the log.
Emitted(c, src, n) ==
    {i \in 1..Len(emitted[c]) : emitted[c][i].src = src /\ emitted[c][i].n = n}

\* The req_id field of a tick frame, and the frame ERR_MSG(-1, MAX_RATE_EXCEEDED).
CarriesReqId(frame, req_id) == Len(frame) >= 2 /\ frame[2] = FieldText(req_id)

IsRateError(frame) ==
    /\ Len(frame) = 4
    /\ frame[1] = ToString(OutgoingMessageIds.ERR_MSG)
    /\ frame[2] = "-1"
    /\ frame[3] = ToString(ErrorCodes.MAX_RATE_EXCEEDED)

\* The kind and the req_id of an inbound frame.
IsKind(frame, kind) == Len(frame) >= 1 /\ frame[1] = ToString(kind)

\* C1: on every session, no frame of a broadcast delivery lies between two
\* frames that one handler call wrote.
BurstContiguous ==
    \A c \in Conns : \A i, j \in 1..Len(wire[c]) :
        (/\ i < j
         /\ wire[c][i].src = "handler" /\ wire[c][j].src = "handler"
         /\ wire[c][i].n = wire[c][j].n)
        => \A m \in i..j : wire[c][m].src # "delivery"

\* C2: what is on a socket is a sequence of whole frames, each one a frame some
\* source handed to _send_raw, in the order in which they were handed over; as
\* long as the socket is open nothing is missing.
EgressWholeFramesInOrder ==
    \A c \in Conns :
        /\ \A i \in 1..Len(wire[c]) :
              /\ wire[c][i].k \in 1..Len(emitted[c])
              /\ wire[c][i] = emitted[c][wire[c][i].k]
        /\ \A i, j \in 1..Len(wire[c]) : i < j => wire[c][i].k < wire[c][j].k
        /\ Open(c) => Len(wire[c]) = Len(emitted[c])

\* C2 happens: a delivery's frame stands on the wire between two frames of one
\* handler call.
EgressInterleaved ==
    \E c \in Conns : \E i, j, m \in 1..Len(wire[c]) :
        /\ i < m /\ m < j
        /\ wire[c][i].src = "handler" /\ wire[c][j].src = "handler"
        /\ wire[c][i].n = wire[c][j].n
        /\ wire[c][m].src = "delivery"

\* C3: the first frame a session writes is its handshake reply, it writes no
\* second one, and it has written any other frame only with api_connected set.
HandshakeReplyFirst ==
    \A c \in Conns :
        /\ emitted[c] # <<>> =>
              /\ emitted[c][1].src = "handshake"
              /\ emitted[c][1].frame =
                     server_version(ProtocolVersion, TimeText(connection_time[c]))
        /\ \A i \in 2..Len(emitted[c]) : emitted[c][i].src # "handshake"
        /\ Len(emitted[c]) > 1 => api_connected[c]
        /\ Len(wire[c]) > 0 => wire[c][1] = emitted[c][1]

\* C3 happens: a session has answered the handshake and then written handler
\* frames and broadcast ticks.
RepliedThenServed ==
    \E c \in Conns :
        /\ \E i \in 2..Len(wire[c]) : wire[c][i].src = "handler"
        /\ \E i \in 2..Len(wire[c]) : wire[c][i].src = "delivery"

\* A first read of the form API\0, an optional v, then N or MIN..MAX, then \0.
IsNumeral(s) == Len(s) > 0 /\ \A i \in 1..Len(s) : IsDigit(s[i])

IsVersionText(s) ==
    \/ IsNumeral(s)
    \/ \E i \in 2..(Len(s) - 2) :
          /\ s[i] = "." /\ s[i + 1] = "."
          /\ IsNumeral(SubSeq(s, 1, i - 1))
          /\ IsNumeral(SubSeq(s, i + 2, Len(s)))

WellFormedHandshake(data) ==
    /\ Len(data) > 5
    /\ SubSeq(data, 1, 4) = <<"A", "P", "I", NUL>>
    /\ data[Len(data)] = NUL
    /\ LET body == SubSeq(data, 5, Len(data) - 1)
       IN  \/ IsVersionText(body)
           \/ body[1] = "v" /\ IsVersionText(Tail(body))

\* C4: a session whose first read is a well-formed handshake writes exactly one
\* handshake reply, of exactly the two fields server version and connection
\* time, and once the reply is flushed it is connected and in the ingress loop.
WellFormedHandshakeAnswered ==
    \A c \in Conns : WellFormedHandshake(first_read[c]) =>
        /\ Cardinality(Emitted(c, "handshake", 0)) = 1
        /\ emitted[c][1].src = "handshake"
        /\ Len(emitted[c][1].frame) = 2
        /\ emitted[c][1].frame =
               <<ToString(ProtocolVersion), TimeText(connection_time[c])>>
        /\ pc[c] # "hs_drain" => api_connected[c]
        /\ pc[c] \in {"hs_drain", "read", "closing", "closed"}

\* C4 happens: a session that sent a version range is connected and waits in
\* the ingress loop.
RangeHandshakeConnected ==
    \E c \in Conns :
        /\ first_read[c] \in {HS_RANGE, HS_BARE_RANGE}
        /\ api_connected[c]
        /\ pc[c] = "read"

\* C5: a session whose first read does not start with API\0 never becomes
\* connected and is sent no handshake reply.
ForeignFirstReadRefused ==
    \A c \in Conns :
        (first_read[c] # <<>> /\ ~startswith(first_read[c], API_PREFIX))
        => ~api_connected[c] /\ emitted[c] = <<>>

\* C6: once the deliveries of a broadcast are over, every session that held a
\* descriptor of the symbol under r when the broadcast was invoked has got
\* exactly one tick frame of each field in the data under r, and a session
\* that held none has got no frame of the broadcast.
FanoutExact ==
    \A b \in 1..Len(broadcasts) :
        (\A t \in tasks : t.b = b => t.st \in {"done", "failed"})
        => \A c \in Conns :
              /\ \A r \in broadcasts[b].holders[c] :
                 \A k \in TicksLeft(broadcasts[b].data, 1) :
                    Cardinality({i \in Emitted(c, "delivery", b) :
                        emitted[c][i].frame =
                            TickFrame(r, TickOrder[k], broadcasts[b].data)})
                    = 1
              /\ broadcasts[b].holders[c] = {} => Emitted(c, "delivery", b) = {}

\* C7 as stated: a handled cancel of r leaves r out of the table (one of an
\* absent r changes nothing and sends nothing), and no broadcast of r's symbol
\* invoked after it writes a frame under r on the session, nor any frame at all
\* when r was the symbol's only key.
CancelHandled(c) ==
    \A i \in 1..Len(dispatched[c]) :
        LET d == dispatched[c][i]
            req_id == parse_cancel_mkt_data(Tail(d.frame)).req_id
        IN  (d.handled /\ IsKind(d.frame, IncomingMessageIds.CANCEL_MKT_DATA))
            => /\ ~dict_has(d.after.subs, req_id)
               /\ d.after.acct = d.before.acct
               /\ d.sends = 0
               /\ ~dict_has(d.before.subs, req_id) => d.after.subs = d.before.subs
               /\ \A key \in dict_keys(d.before.subs) \ {req_id} :
                      dict_has(d.after.subs, key)

CancelStopsFeed ==
    \A c \in Conns :
        /\ CancelHandled(c)
        /\ \A e \in cancel_log[c] : \A i \in 1..Len(emitted[c]) :
              (/\ emitted[c][i].src = "delivery"
               /\ emitted[c][i].n > e.at
               /\ broadcasts[emitted[c][i].n].symbol = e.symbol)
              => /\ ~CarriesReqId(emitted[c][i].frame, e.req_id)
                 /\ ~e.only

\* C7 amended: the same, as long as r (for the last part: any key of the
\* symbol) has not been subscribed again since the cancel.
CancelStopsFeedUntilResubscribed ==
    \A c \in Conns :
        /\ CancelHandled(c)
        /\ \A e \in cancel_log[c] :
              e.live => ~dict_has(market_data_subscriptions[c], e.req_id)
        /\ \A e \in cancel_log[c] : \A i \in 1..Len(emitted[c]) :
              (/\ emitted[c][i].src = "delivery"
               /\ emitted[c][i].n > e.at
               /\ broadcasts[emitted[c][i].n].symbol = e.symbol)
              => /\ e.live => ~CarriesReqId(emitted[c][i].frame, e.req_id)
                 /\ e.only => ~e.quiet

\* C7 happens: a session cancelled one of its two keys, a broadcast invoked
\* later wrote ticks under the other key, and the cancelled key is still out.
CancelledThenBroadcast ==
    \E c \in Conns : \E e \in cancel_log[c] :
        /\ e.live /\ ~e.only
        /\ \E i \in 1..Len(wire[c]) :
              /\ wire[c][i].src = "delivery"
              /\ wire[c][i].n > e.at
              /\ ~CarriesReqId(wire[c][i].frame, e.req_id)

\* The place of the i-th frame of a session in its rate-limit window, and the
\* frames the session wrote in answer to it.
WindowPlace(c, i) ==
    Cardinality({j \in 1..i : dispatched[c][j].last = dispatched[c][i].last})

RateErrors(c, i) ==
    {k \in Emitted(c, "handler", i) : IsRateError(emitted[c][k].frame)}

\* C8: each of the first message_rate_limit frames of a window is decoded and
\* dispatched and answered with no MAX_RATE_EXCEEDED error; the frame after
\* them is answered with exactly one frame, ERR_MSG(-1, MAX_RATE_EXCEEDED), and
\* is not decoded, not dispatched and leaves the subscriptions as they were.
RateLimitThreshold ==
    \A c \in Conns : \A i \in 1..Len(dispatched[c]) :
        LET d == dispatched[c][i]
        IN  /\ WindowPlace(c, i) <= message_rate_limit =>
                  /\ d.decoded /\ d.handled
                  /\ RateErrors(c, i) = {}
            /\ WindowPlace(c, i) = message_rate_limit + 1 =>
                  /\ ~d.decoded /\ ~d.routed /\ ~d.handled
                  /\ d.after = d.before
                  /\ d.sends = 1
                  /\ Cardinality(Emitted(c, "handler", i)) = 1
                  /\ RateErrors(c, i) = Emitted(c, "handler", i)

\* C8 happens: a subscription request came as the frame after the limit, in a
\* window whose earlier frames were dispatched.
RateLimitHit ==
    \E c \in Conns : \E i \in 1..Len(dispatched[c]) :
        /\ WindowPlace(c, i) = message_rate_limit + 1
        /\ IsKind(dispatched[c][i].frame, IncomingMessageIds.REQ_MKT_DATA)
        /\ \E j \in 1..(i - 1) : dispatched[c][j].handled

\* C9: when a session is over the limit and its next frame comes more than
\* rate_limit_window after the start of the window, that frame starts a new
\* window at its own time with count 1, is decoded and dispatched, and is
\* answered with no MAX_RATE_EXCEEDED error.
RateLimitReset ==
    \A c \in Conns : \A i \in 2..Len(dispatched[c]) :
        LET d == dispatched[c][i]
            p == dispatched[c][i - 1]
        IN  (/\ WindowPlace(c, i - 1) > message_rate_limit
             /\ d.t - p.last > rate_limit_window)
            => /\ d.last = d.t
               /\ d.count = 1
               /\ d.decoded /\ d.handled
               /\ RateErrors(c, i) = {}

\* C9 happens: a frame was turned away for the rate, and a later frame of the
\* session, more than the window after, was dispatched.
RateLimitRecovered ==
    \E c \in Conns : \E i \in 2..Len(dispatched[c]) :
        /\ RateErrors(c, i - 1) # {}
        /\ dispatched[c][i].t - dispatched[c][i - 1].last > rate_limit_window
        /\ dispatched[c][i].handled

\* C10: the registry never holds more than max_clients sessions; a connection
\* turned away has no handler state, no registry entry and nothing written to
\* it; and an accept that finds the registry full turns the connection away.
RegistryCapped ==
    /\ Cardinality(clients) <= max_clients
    /\ \A c \in Conns : pc[c] = "rejected" =>
          /\ c \notin clients
          /\ wire[c] = <<>> /\ emitted[c] = <<>>
          /\ first_read[c] = <<>> /\ ~api_connected[c]
          /\ client_version[c] = PyNone

FullRegistryRejects ==
    (next_client_id' # next_client_id /\ Cardinality(clients) >= max_clients)
    => /\ pc'[next_client_id] = "rejected"
       /\ clients' = clients
       /\ wire' = wire

MaxClientsCap == []RegistryCapped /\ [][FullRegistryRejects]_vars

\* C10 happens: a connection was turned away while the registry was full, and
\* the sessions in it went on.
AcceptRejected ==
    \E c \in Conns :
        /\ pc[c] = "rejected"
        /\ Cardinality(clients) = max_clients
        /\ \E d \in clients : api_connected[d]

\* The texts of the fields of the j-th frame the peer of SpecIngress sends.
ScriptTexts(j) ==
    [i \in 1..Len(IngressScript[j]) |-> Join(FieldBytes(IngressScript[j][i]))]

\* How many frames of the stream are complete within its first n bytes.
CompleteWithin(n) ==
    Cardinality({j \in 1..Len(IngressScript) : FrameEnd(j) <= n})

\* C12: whatever the places where the reads cut the stream, the frames taken
\* off the receive buffer are exactly the frames complete in the bytes read so
\* far, each dispatched once and in the order sent, and the bytes behind the
\* last complete frame stay in the buffer: after a read that ends inside a
\* frame nothing of that frame is dispatched and none of its bytes is lost, and
\* after the read that completes it the frame is dispatched once.
PartialFramesKept ==
    \A c \in Talkers :
        LET n == rxlog[c].n
            k == CompleteWithin(n)
        IN  /\ nread[c] = k
            /\ nproc[c] + Len(buffer[c]) = k
            /\ Len(dispatched[c]) = nproc[c]
            /\ rxbuf[c] = SubSeq(IngressStream, FrameEnd(k) + 1, n)
            /\ \A i \in 1..nproc[c] : dispatched[c][i].frame = ScriptTexts(i)
            /\ \A i \in 1..Len(buffer[c]) :
                   buffer[c][i] = ScriptTexts(nproc[c] + i)

\* C12 happens: a frame that a read ended inside has been dispatched, and a
\* later frame is held back with some of its bytes in the buffer.
SplitFrameDispatched ==
    \E c \in Talkers : \E j \in rxlog[c].split :
        /\ nproc[c] >= j
        /\ rxbuf[c] # <<>>
        /\ nread[c] < Len(IngressScript)

\* What C13 asks of a field vector: not empty, a decimal integer in front, and
\* no NUL inside a string.
RoundTripInput(F) ==
    /\ F # <<>>
    /\ \/ F[1].t = "int"
       \/ F[1].t = "str" /\ IsIntText(F[1].v)
    /\ \A i \in 1..Len(F) :
           F[i].t = "str" => \A k \in 1..Len(F[i].v) : F[i].v[k] # NUL

\* C13: decoding the encoding of such a vector gives the integer in front and
\* the texts of the fields behind it, the empty ones kept in their places.
FrameRoundTrip ==
    (codec.st = "out" /\ RoundTripInput(codec.fields))
    => LET F == codec.fields
       IN  /\ codec.back.status = "ok"
           /\ codec.back.msg_id =
                  (IF F[1].t = "int" THEN F[1].v ELSE IntValue(F[1].v))
           /\ codec.back.fields =
                  [i \in 1..(Len(F) - 1) |-> FieldBytes(F[i + 1])]

\* C13 happens: a vector with a numeral in front, an empty string in the
\* middle and an absent value at the end went through both ways.
RoundTripDone ==
    /\ codec.st = "out"
    /\ RoundTripInput(codec.fields)
    /\ Len(codec.fields) = 3
    /\ codec.fields[1].t = "str"
    /\ codec.fields[2] = PyStr(<<>>)
    /\ codec.fields[3] = PyNone
    /\ codec.back.status = "ok"

\* Whether the handler call for the i-th frame of session c has returned.
HandlerOver(c, i) == i < nproc[c] \/ (i = nproc[c] /\ pc[c] # "send")

\* The frames the handler call for the i-th frame of session c has written so
\* far, in the order written.
HandlerFrames(c, i) ==
    LET at == SelectSeq([k \in 1..Len(emitted[c]) |-> k],
                        LAMBDA k : k \in Emitted(c, "handler", i))
    IN  [j \in 1..Len(at) |-> emitted[c][at[j]].frame]

\* The kind of a well-formed inbound frame is in no entry of the dispatch
\* table.
UnknownKind(frame) ==
    /\ frame # <<>>
    /\ IntOfText(frame[1]) # PyNone
    /\ IntOfText(frame[1]).v \notin HandledKinds

\* C11: a well-formed frame within the rate limit whose kind K has no entry
\* in the dispatch table is answered with exactly one frame,
\* ERR_MSG(-1, UNKNOWN_ID, "Unknown message ID: K"); no handler runs; the
\* subscription tables and client_id stay as they were; and the session goes
\* on with the frames behind it.
UnknownKindAnswered ==
    \A c \in Conns : \A i \in 1..Len(dispatched[c]) :
        LET d == dispatched[c][i]
        IN  (UnknownKind(d.frame) /\ d.count <= message_rate_limit)
            => /\ d.routed /\ ~d.handled
               /\ HandlerOver(c, i)
               /\ HandlerFrames(c, i) =
                      <<<<ToString(OutgoingMessageIds.ERR_MSG), "-1",
                          ToString(ErrorCodes.UNKNOWN_ID),
                          "Unknown message ID: " \o d.frame[1]>>>>
               /\ d.after = d.before
               /\ d.client_id.after = d.client_id.before
               /\ Open(c)
               /\ (i < Len(dispatched[c]) /\ dispatched[c][i + 1].frame # <<>>
                   /\ dispatched[c][i + 1].count <= message_rate_limit)
                  => dispatched[c][i + 1].routed

\* C11 happens: a frame of kind 9999 was answered while the session held a
\* subscription and an adopted client id, and the frame behind it in the same
\* read was handled.
UnknownKindSeen ==
    \E c \in Conns : \E i \in 2..Len(dispatched[c]) :
        /\ dispatched[c][i].frame = UnknownKindFrame
        /\ dispatched[c][i].client_id.before # c
        /\ i < Len(dispatched[c])
        /\ dispatched[c][i + 1].handled

\* The client id a START_API frame carries: the integer in its first field
\* behind the kind, PyNone when the frame has none.
CarriedClientId(frame) ==
    IF Len(frame) >= 2 THEN IntOfText(frame[2]) ELSE PyNone

\* The two frames a START_API is answered with, written so far or in full.
StartApiReply(c, i) ==
    LET out == HandlerFrames(c, i)
    IN  /\ Len(out) <= 2
        /\ HandlerOver(c, i) => Len(out) = 2
        /\ Len(out) >= 1 =>
               /\ Len(out[1]) = 2
               /\ out[1][1] = ToString(OutgoingMessageIds.NEXT_VALID_ID)
               /\ out[1][2] # ""
        /\ Len(out) = 2 =>
               out[2] = <<ToString(OutgoingMessageIds.MANAGED_ACCTS),
                          FirstAccount>>

\* C14 as stated: a dispatched START_API sets client_id to the id the frame
\* carries, keeps the id the listener assigned when it carries none, and is
\* answered with exactly two frames, NEXT_VALID_ID and then MANAGED_ACCTS with
\* the configured accounts.
StartApiAdopts ==
    \A c \in Conns : \A i \in 1..Len(dispatched[c]) :
        LET d == dispatched[c][i]
        IN  (d.handled /\ IsKind(d.frame, IncomingMessageIds.START_API))
            => /\ CarriedClientId(d.frame) # PyNone
                     => d.client_id.after = CarriedClientId(d.frame).v
               /\ CarriedClientId(d.frame) = PyNone => d.client_id.after = c
               /\ StartApiReply(c, i)

\* C14, amended: a START_API that carries no client id keeps the id the
\* session has, which is the listener's only until a START_API changed it.
StartApiAdoptsOrKeeps ==
    \A c \in Conns : \A i \in 1..Len(dispatched[c]) :
        LET d == dispatched[c][i]
        IN  (d.handled /\ IsKind(d.frame, IncomingMessageIds.START_API))
            => /\ CarriedClientId(d.frame) # PyNone
                     => d.client_id.after = CarriedClientId(d.frame).v
               /\ CarriedClientId(d.frame) = PyNone
                     => d.client_id.after = d.client_id.before
               /\ StartApiReply(c, i)

\* C14 happens: a START_API without a client id came after one that had
\* changed the id, and both were answered in full.
StartApiTwice ==
    \E c \in Conns : \E i \in 1..Len(dispatched[c]) :
        \E j \in (i + 1)..Len(dispatched[c]) :
            /\ dispatched[c][i].frame = StartApiFrame("7")
            /\ dispatched[c][i].client_id.after = 7
            /\ dispatched[c][j].frame = StartApiBare
            /\ dispatched[c][j].handled
            /\ HandlerOver(c, j)

\* The account a REQ_ACCT_DATA frame names: its account_code, or the first
\* configured account when the code is empty.
AccountOf(frame) ==
    IF Len(frame) >= 3 /\ frame[3] # "" THEN frame[3] ELSE FirstAccount

AccountValueKeys ==
    <<"NetLiquidation", "TotalCashValue", "UnrealizedPnL", "RealizedPnL">>

\* The k-th frame of the burst for an account with np open positions.
BurstFrame(frame, k, np, account) ==
    /\ frame # <<>>
    /\ frame[Len(frame)] = account \/ k = 5
    /\ IF k <= 4
       THEN /\ frame[1] = ToString(OutgoingMessageIds.ACCT_VALUE)
            /\ Len(frame) = 5
            /\ frame[2] = AccountValueKeys[k]
       ELSE IF k = 5
       THEN frame[1] = ToString(OutgoingMessageIds.ACCT_UPDATE_TIME)
       ELSE IF k <= 5 + np
       THEN frame[1] = ToString(OutgoingMessageIds.PORTFOLIO_VALUE)
       ELSE frame = <<ToString(OutgoingMessageIds.ACCT_DOWNLOAD_END), account>>

\* C15: every REQ_ACCT_DATA with subscribe=1, whatever its account_code, adds
\* the account to account_subscriptions and is answered, in this order, with
\* four ACCT_VALUE frames (NetLiquidation, TotalCashValue, UnrealizedPnL,
\* RealizedPnL), one ACCT_UPDATE_TIME, one PORTFOLIO_VALUE for each open
\* position the store returns, and one ACCT_DOWNLOAD_END for the account last.
AcctSubscribeBurst ==
    \A c \in Conns : \A i \in 1..Len(dispatched[c]) :
        LET d == dispatched[c][i]
            account == AccountOf(d.frame)
            np == Len(get_positions(account))
            out == HandlerFrames(c, i)
        IN  (/\ d.handled
             /\ IsKind(d.frame, IncomingMessageIds.REQ_ACCT_DATA)
             /\ Len(d.frame) >= 2 /\ d.frame[2] = "1")
            => /\ account \in d.after.acct
               /\ Len(out) <= 6 + np
               /\ HandlerOver(c, i) => Len(out) = 6 + np
               /\ \A k \in 1..Len(out) : BurstFrame(out[k], k, np, account)

\* The seven frames of the initial burst for the req_id with text r.
InitialBurst(r) ==
    <<<<ToString(OutgoingMessageIds.TICK_PRICE), r, "1", "99.99", "1", "0">>,
      <<ToString(OutgoingMessageIds.TICK_PRICE), r, "2", "100.01", "1", "0">>,
      <<ToString(OutgoingMessageIds.TICK_PRICE), r, "4", "100.0", "1", "0">>,
      <<ToString(OutgoingMessageIds.TICK_SIZE), r, "0", "100">>,
      <<ToString(OutgoingMessageIds.TICK_SIZE), r, "3", "100">>,
      <<ToString(OutgoingMessageIds.TICK_SIZE), r, "5", "50">>,
      <<ToString(OutgoingMessageIds.TICK_SIZE), r, "8", "1000000">>>>

\* The descriptors a subscription table holds under a key.
StoredUnder(entries, key) ==
    {j \in 1..Len(entries) : entries[j].live /\ entries[j].key = key}

\* C16: a dispatched REQ_MKT_DATA(req_id=r) leaves exactly one descriptor
\* under r, the one of this request with its contract, generic_ticks, snapshot
\* and regulatory_snapshot, and is answered with exactly the seven frames of
\* the initial burst for r, in their order.
MktDataStoredAndBurst ==
    \A c \in Conns : \A i \in 1..Len(dispatched[c]) :
        LET d == dispatched[c][i]
            out == HandlerFrames(c, i)
        IN  (/\ d.handled
             /\ IsKind(d.frame, IncomingMessageIds.REQ_MKT_DATA)
             /\ Len(d.frame) = 5 /\ IntOfText(d.frame[2]) # PyNone)
            => /\ \A j \in 1..Len(d.after.subs) :
                      Cardinality(StoredUnder(d.after.subs,
                                              d.after.subs[j].key)) <= 1
               /\ \E j \in StoredUnder(d.after.subs, IntOfText(d.frame[2])) :
                      d.after.subs[j].val =
                          [contract |-> [con_id |-> IntOfText(d.frame[3]),
                                         symbol |-> d.frame[4],
                                         sec_type |-> d.frame[5]],
                           generic_ticks |-> "", snapshot |-> FALSE,
                           regulatory_snapshot |-> FALSE]
               /\ Len(out) <= 7
               /\ out = SubSeq(InitialBurst(d.frame[2]), 1, Len(out))
               /\ HandlerOver(c, i) => Len(out) = 7

\* C16 happens: a request for a key that held the descriptor of another
\* symbol was answered with the whole burst.
MktDataReplaced ==
    \E c \in Conns : \E i \in 1..Len(dispatched[c]) :
        LET d == dispatched[c][i]
        IN  /\ d.handled
            /\ d.frame = MktDataFrame(10, "Y")
            /\ KeysOf(d.before.subs, "X") = {PyInt(10)}
            /\ HandlerOver(c, i)
            /\ Len(HandlerFrames(c, i)) = 7

OrderStatuses == <<"PendingSubmit", "Submitted">>

\* The handler call for the i-th frame of session c slept between its frames
\* at the places lo and hi of the log.
SleptBetween(c, i, lo, hi) ==
    \E j \in 1..Len(naps[c]) :
        naps[c][j].n = i /\ lo <= naps[c][j].k /\ naps[c][j].k < hi

\* C17: a dispatched PLACE_ORDER with order_id n is answered with exactly two
\* ORDER_STATUS frames for n, PendingSubmit and, after the handler's sleep,
\* Submitted, both with filled, remaining and avg_fill_price 0; at no moment
\* has the call written Submitted without PendingSubmit before it, and it
\* writes no fill and no other status.
PlaceOrderLifecycle ==
    \A c \in Conns : \A i \in 1..Len(dispatched[c]) :
        LET d == dispatched[c][i]
            out == HandlerFrames(c, i)
            at == Emitted(c, "handler", i)
        IN  (/\ d.handled
             /\ IsKind(d.frame, IncomingMessageIds.PLACE_ORDER)
             /\ Len(d.frame) >= 2 /\ IntOfText(d.frame[2]) # PyNone)
            => /\ Len(out) <= 2
               /\ HandlerOver(c, i) => Len(out) = 2
               /\ \A k \in 1..Len(out) :
                      /\ Len(out[k]) = 12
                      /\ out[k][1] = ToString(OutgoingMessageIds.ORDER_STATUS)
                      /\ out[k][2] = d.frame[2]
                      /\ out[k][3] = OrderStatuses[k]
                      /\ out[k][4] = "0" /\ out[k][5] = "0" /\ out[k][6] = "0"
               /\ Len(out) = 2 =>
                      \E lo \in at : \E hi \in at :
                          lo < hi /\ SleptBetween(c, i, lo, hi)

\* C17 happens: order 42 was placed on a session that had adopted client id
\* 7, and both of its statuses were written, with the frame of another
\* request behind them.
OrderSubmitted ==
    \E c \in Conns : \E i \in 1..Len(dispatched[c]) :
        /\ dispatched[c][i].frame = PlaceOrderFrame(42, "X")
        /\ dispatched[c][i].client_id.before = 7
        /\ Len(HandlerFrames(c, i)) = 2
        /\ HandlerFrames(c, i)[2][3] = "Submitted"
        /\ HandlerFrames(c, i)[2][10] = "7"
        /\ i < Len(dispatched[c])

\* The ids the listener has handed out are those below the counter, which
\* started at 1; a handler created under an id holds it as its client_id.
IdsBelowCounter ==
    /\ next_client_id = 1 + Cardinality({c \in Conns : pc[c] # "none"})
    /\ \A c \in Conns : pc[c] # "none" <=> c < next_client_id
    /\ \A c \in clients : c < next_client_id
    /\ \A c \in Conns : pc[c] \notin {"none", "rejected"} => client_id[c] = c

\* Every accept, admitted or turned away, takes the id at the counter, which
\* no connection had before, and moves the counter up by one; nothing else
\* moves the counter, creates a connection or registers one.
AcceptTakesFreshId ==
    /\ next_client_id' # next_client_id
          => /\ next_client_id' = next_client_id + 1
             /\ pc[next_client_id] = "none"
             /\ pc'[next_client_id] \in {"handshake", "rejected"}
    /\ \A c \in Conns :
          (pc[c] = "none" /\ pc'[c] # "none") \/ (c \in clients' \ clients)
              => c = next_client_id /\ next_client_id' = c + 1

\* C18: the ids the listener assigns start at 1 and go up by one with every
\* accept, turned-away accepts included, so that no id is given to two
\* connections, however accepts and disconnects interleave.
ListenerIdsFresh == []IdsBelowCounter /\ [][AcceptTakesFreshId]_vars

\* C18 happens: a connection was registered under id 3 after an earlier
\* session had ended and left the registry.
IdAfterDisconnect ==
    /\ 3 \in clients
    /\ \E c \in Conns : c < 3 /\ pc[c] = "closed"

\* Once the ingress loop of a session has ended, by end of stream, by an
\* error or by cancellation, its writer has been closed; and a session whose
\* handle_client has ended has no entry in the registry.
ClosedWhenOver ==
    \A c \in Conns :
        /\ exit[c].cause # "none" => pc[c] \in {"closing", "closed", "aborted"}
        /\ pc[c] \in {"closed", "aborted"} => c \notin clients

\* C19: whenever the handler of a registered session ends, whether by end of
\* stream, a socket error, an exception leaving the ingress loop or the
\* cancellation of its task, the socket is closed and the entry of the session
\* leaves the registry in the end.
RegistryCleanedUp ==
    /\ []ClosedWhenOver
    /\ \A c \in Conns :
          (c \in clients /\ exit[c].cause # "none") ~> (c \notin clients)

\* C19 happens: a session lost to a reset and a session cancelled while
\* close() was waiting have both left the registry.
BothCleanedUp ==
    \E c \in Conns : \E d \in Conns :
        /\ exit[c].cause = "error" /\ pc[c] = "closed" /\ c \notin clients
        /\ exit[d].raised = "CancelledError" /\ pc[d] = "aborted"
        /\ d \notin clients

\* What a session holds: its place, its connection state and its tables.
SessionState(d) ==
    <<pc[d], api_connected[d], client_version[d], client_id[d],
      market_data_subscriptions[d], account_subscriptions[d], eof[d], exit[d],
      wire[d], emitted[d], buffer[d], outq[d], d \in clients>>

\* An inbound frame on which the decoder or the handler raises.
RaisesOn(frame) ==
    /\ frame # <<>>
    /\ \/ IntOfText(frame[1]) = PyNone
       \/ IsKind(frame, IncomingMessageIds.PLACE_ORDER) /\ Len(frame) = 1

\* A step in which an exception is raised in session c, and caught: a frame
\* is dispatched on which the decoder or the handler raises.
RaisedAndCaught(c) ==
    /\ Len(dispatched'[c]) = Len(dispatched[c]) + 1
    /\ RaisesOn(dispatched'[c][Len(dispatched'[c])].frame)

\* A step in which an exception ends the ingress loop of session c, and a
\* step in which the handle_client of such a session ends.
RaisedAndLeft(c) == exit[c].cause = "none" /\ exit'[c].cause = "error"
FailedAndEnded(c) ==
    exit[c].cause = "error" /\ pc[c] = "closing" /\ pc'[c] # "closing"

\* Such steps leave every other session, its registry entry and the
\* listener's counter as they were; a caught exception leaves the session open
\* and registered.
OthersUntouched ==
    \A c \in Conns :
        (RaisedAndCaught(c) \/ RaisedAndLeft(c) \/ FailedAndEnded(c))
        => /\ \A d \in Conns \ {c} : SessionState(d)' = SessionState(d)
           /\ next_client_id' = next_client_id
           /\ RaisedAndCaught(c) => c \in clients' /\ pc'[c] # "closing"

\* No task of handle_client ends with an Exception, and the listener takes
\* the next connection whatever became of the sessions.
NothingEscapes ==
    /\ \A c \in Conns : ~IsException(exit[c].raised)
    /\ \A c \in Conns : pc[c] = "aborted" => exit[c].raised = "CancelledError"
    /\ next_client_id <= MaxAccepts => ENABLED Accept

\* C20: an exception raised while a session is served, in its handshake, its
\* ingress loop, the decoder or a handler, ends at most that session; it does
\* not leave handle_client; every other session keeps its registry entry, its
\* subscription tables and its connection state; and the listener goes on
\* accepting.
FailureIsolated == []NothingEscapes /\ [][OthersUntouched]_vars

\* C20 happens: the first session raised in the decoder and in a handler and
\* was then lost to a reset, while the second kept its subscription and its
\* entry, and a third connection was admitted afterwards.
FailedBesideOthers ==
    /\ exit[1].cause = "error" /\ pc[1] = "closed"
    /\ \E i \in 1..Len(dispatched[1]) :
          IntOfText(dispatched[1][i].frame[1]) = PyNone
    /\ \E i \in 1..Len(dispatched[1]) :
          dispatched[1][i].frame = <<ToString(IncomingMessageIds.PLACE_ORDER)>>
    /\ 2 \in clients /\ api_connected[2]
    /\ KeysOf(market_data_subscriptions[2], "X") = {PyInt(10)}
    /\ 3 \in clients

\* ---------------------------------------------------------------- order ids
\* One session that asks for order ids, with REQ_IDS and with START_API, while
\* the other connections arrive, end, and the clock runs.
ReqIdsFrame == <<ToString(IncomingMessageIds.REQ_IDS), "1">>
OrderIdsFrames == {ReqIdsFrame, StartApiBare}

NextOrderIds ==
    \/ Accept
    \/ \E c \in Conns : HandshakeRead(c, HS_RANGE)
    \/ \E c \in Conns : HandshakeDone(c)
    \/ \E c \in Talkers, f \in OrderIdsFrames : Read(c, <<f>>, MaxFrames)
    \/ \E c \in Talkers : Send(c)
    \/ \E c \in Conns \ Talkers : ReadEOF(c)
    \/ \E c \in Conns \ Talkers : Closed(c)
    \/ Tick

SpecOrderIds == Init /\ [][NextOrderIds]_vars

\* The values get_next_order_id can return within the bounds.
OrderIdsPossible ==
    {get_next_order_id(r, t) : r \in 0..max_clients, t \in 0..MaxTime}

\* The order ids session c was told, in the order of the calls of
\* get_next_order_id that made them.
OrderIdsTold(c) ==
    LET at == SelectSeq([k \in 1..Len(emitted[c]) |-> k],
                 LAMBDA k : IsKind(emitted[c][k].frame,
                                   OutgoingMessageIds.NEXT_VALID_ID))
    IN  [j \in 1..Len(at) |->
            CHOOSE n \in OrderIdsPossible :
                ToString(n) = emitted[c][at[j]].frame[2]]

\* C21: of two calls of get_next_order_id made one after the other, with any
\* accepts, disconnects and passage of time between them, the second returns
\* no less than the first.
OrderIdsMonotone ==
    \A c \in Conns :
        \A i, j \in 1..Len(OrderIdsTold(c)) :
            i < j => OrderIdsTold(c)[i] <= OrderIdsTold(c)[j]

\* --------------------------------------------------------------------- stop
\* The sessions in the order list(self.clients.values()) yields them: the
\* registry is a dict, the ids grow, so that insertion order is id order.
RECURSIVE ClientsInOrder(_)
ClientsInOrder(ids) ==
    IF ids = {} THEN <<>>
    ELSE LET least == CHOOSE c \in ids : \A d \in ids : c <= d
         IN  <<least>> \o ClientsInOrder(ids \ {least})

\* A handler of session c is inside asyncio.sleep: no frame was written since
\* its last nap began.
Sleeping(c) ==
    /\ pc[c] = "send"
    /\ \E i \in 1..Len(naps[c]) :
          naps[c][i] = [n |-> nproc[c], k |-> Len(emitted[c])]

\* IBSimulatorServer.stop up to its first await: the sessions registered now
\* are listed and close() is called on the first, which closes its writer and
\* awaits wait_closed; with no session listed the listener is closed.
StopBegin ==
    /\ stopping.at = "running"
    /\ LET todo == ClientsInOrder(clients)
       IN  stopping' =
               IF todo = <<>>
               THEN [at |-> "server", todo |-> <<>>, lost |-> {}]
               ELSE [at |-> "clients", todo |-> todo, lost |-> {Head(todo)}]
    /\ UNCHANGED <<clients, next_client_id, now, pc, api_connected,
                   client_version, connection_time,
                   market_data_subscriptions, account_subscriptions,
                   message_count, last_message_time, buffer, outq, eof, wire,
                   tasks, emitted, nread, nproc, first_read, dispatched,
                   broadcasts, cancel_log, client_id, rxbuf, naps, exit,
                   codec, rxlog, store>>

\* The wait_closed that stop() awaits for the first listed session returns:
\* the connection is lost.  connection_lost wakes the session's pending read
\* and its own wait_closed before it wakes stop(), so that a handler waiting
\* there has ended by now; a handler in a drain or in a sleep has not.  stop()
\* goes on to the next listed session, or closes the listener.
StopClientClosed ==
    /\ stopping.at = "clients"
    /\ pc[Head(stopping.todo)] \notin {"handshake", "read", "closing"}
    /\ LET rest == Tail(stopping.todo)
       IN  stopping' =
               IF rest = <<>>
               THEN [stopping EXCEPT !.at = "server", !.todo = <<>>]
               ELSE [stopping EXCEPT !.todo = rest,
                                     !.lost = @ \cup {Head(rest)}]
    /\ UNCHANGED <<clients, next_client_id, now, pc, api_connected,
                   client_version, connection_time,
                   market_data_subscriptions, account_subscriptions,
                   message_count, last_message_time, buffer, outq, eof, wire,
                   tasks, emitted, nread, nproc, first_read, dispatched,
                   broadcasts, cancel_log, client_id, rxbuf, naps, exit,
                   codec, rxlog, store>>

\* self.server.wait_closed() returns and db_manager.close() closes the
\* connection of the store.  (Before Python 3.12 wait_closed returns at once;
\* from 3.12 on it returns when no accepted connection is open any more.  Both
\* are behaviours of this action.)
StopServerClosed ==
    /\ stopping.at = "server"
    /\ stopping' = [stopping EXCEPT !.at = "done"]
    /\ store' = [store EXCEPT !.open = FALSE]
    /\ UNCHANGED <<clients, next_client_id, now, pc, api_connected,
                   client_version, connection_time,
                   market_data_subscriptions, account_subscriptions,
                   message_count, last_message_time, buffer, outq, eof, wire,
                   tasks, emitted, nread, nproc, first_read, dispatched,
                   broadcasts, cancel_log, client_id, rxbuf, naps, exit,
                   codec, rxlog>>

\* The sessions whose writer stop() has closed, and the others.
Lost == stopping.lost
Live == Conns \ Lost

\* Sessions that subscribe and place orders while stop() runs.  A session
\* whose writer stop() closed reads the end of the stream and has its drains
\* raise; the peers of the others may close as well.
StopFrames == {MktDataFrame(10, "X"), PlaceOrderFrame(42, "X")}

NextStop ==
    \/ Accept
    \/ \E c \in Live : HandshakeRead(c, HS_RANGE)
    \/ \E c \in Lost : HandshakeRead(c, HS_EOF)
    \/ \E c \in Live : HandshakeDone(c)
    \/ \E c \in Live, f \in StopFrames : Read(c, <<f>>, 1)
    \/ \E c \in Live : Send(c)
    \/ \E c \in Live : Sleep(c)
    \/ \E c \in Conns : ReadEOF(c)
    \/ \E c \in Lost : DrainError(c)
    \/ \E c \in Conns : \E e \in CloseErrors(c) : CloseEnds(c, e)
    \/ StopBegin
    \/ StopClientClosed
    \/ StopServerClosed

SpecStop == Init /\ [][NextStop]_vars

\* A session whose handle_client task has not ended.
HandlerRunning(c) == pc[c] \notin {"none", "rejected", "closed", "aborted"}

\* C22: once stop() has closed the store adapter the listener is stopped, the
\* registry is empty and no session handler is running any more.
StopOrdering ==
    ~store.open
    => /\ ~Listening
       /\ clients = {}
       /\ \A c \in Conns : ~HandlerRunning(c)

\* ----------------------------------------------------------------- recovery
\* One session that sends one frame more than the rate limit lets through,
\* one to a read or two with a frame that raises in front: a frame whose kind
\* is no integer, subscriptions, cancels and orders cut short behind their kind
\* or behind the order id, and a whole subscription.  A drain may raise, which
\* ends the session.
KindOnlyFrame(kind) == <<ToString(kind)>>
OrderIdOnlyFrame == <<ToString(IncomingMessageIds.PLACE_ORDER), "42">>
RaisingFrames == {<<"X">>, KindOnlyFrame(IncomingMessageIds.PLACE_ORDER)}
RecoveryFrames ==
    RaisingFrames
    \cup {KindOnlyFrame(IncomingMessageIds.REQ_MKT_DATA),
          KindOnlyFrame(IncomingMessageIds.CANCEL_MKT_DATA),
          OrderIdOnlyFrame, MktDataFrame(10, "X")}

NextRecovery ==
    \/ Accept
    \/ \E c \in Talkers : HandshakeRead(c, HS_RANGE)
    \/ \E c \in Talkers : HandshakeDone(c)
    \/ \E c \in Talkers, f \in RecoveryFrames :
          Read(c, <<f>>, message_rate_limit + 1)
    \/ \E c \in Talkers, b \in RaisingFrames, f \in RecoveryFrames :
          Read(c, <<b, f>>, message_rate_limit + 1)
    \/ \E c \in Talkers : Continue(c)
    \/ \E c \in Talkers : Send(c)
    \/ \E c \in Talkers : Sleep(c)
    \/ \E c \in Talkers : DrainError(c)
    \/ \E c \in Talkers : \E e \in CloseErrors(c) : CloseEnds(c, e)

SpecRecovery == Init /\ [][NextRecovery]_vars

\* An inbound frame that ends before a field its kind requires: the req_id of
\* a market-data subscription or cancel, the contract and order fields of an
\* order.
LacksRequired(frame) ==
    \/ /\ \/ IsKind(frame, IncomingMessageIds.REQ_MKT_DATA)
          \/ IsKind(frame, IncomingMessageIds.CANCEL_MKT_DATA)
       /\ Len(frame) < 2
    \/ /\ IsKind(frame, IncomingMessageIds.PLACE_ORDER)
       /\ Len(frame) < 3

IsServerError(frame) ==
    /\ Len(frame) = 4
    /\ frame[1] = ToString(OutgoingMessageIds.ERR_MSG)
    /\ frame[2] = "-1"
    /\ frame[3] = ToString(ErrorCodes.SERVER_ERROR)

\* C23: a dispatched frame that lacks a required field of its kind is
\* answered with an ERR_MSG of code SERVER_ERROR and with no other frame, and
\* leaves market_data_subs and account_subs as they were.
MissingFieldsRefused ==
    \A c \in Conns : \A i \in 1..Len(dispatched[c]) :
        LET d == dispatched[c][i]
        IN  (d.routed /\ LacksRequired(d.frame) /\ HandlerOver(c, i)
             /\ exit[c].cause = "none")
            => /\ Len(HandlerFrames(c, i)) = 1
               /\ IsServerError(HandlerFrames(c, i)[1])
               /\ d.after = d.before

\* What recovery from the i-th frame of session c looks like once its handler
\* call is over: its frames end with the one ERR_MSG(-1, SERVER_ERROR, detail)
\* among them, the subscription tables are as before, and as long as no later
\* frame was taken up the session is open and goes on with what is left in the
\* buffer.
Recovered(c, i) ==
    LET d == dispatched[c][i]
        hf == HandlerFrames(c, i)
    IN  /\ hf # <<>>
        /\ IsServerError(hf[Len(hf)])
        /\ \A j \in 1..(Len(hf) - 1) :
               ~IsKind(hf[j], OutgoingMessageIds.ERR_MSG)
        /\ d.after = d.before
        /\ i = nproc[c] => /\ Open(c)
                           /\ buffer[c] # <<>> => pc[c] = "ready"

\* C24: a complete frame whose first field is no decimal integer, or on which
\* a handler raises, is dropped and answered with exactly one
\* ERR_MSG(-1, SERVER_ERROR, detail); the session stays open and goes on with
\* the frames behind it.
FrameErrorRecovered ==
    \A c \in Conns : \A i \in 1..Len(dispatched[c]) :
        (RaisesOn(dispatched[c][i].frame) /\ HandlerOver(c, i))
        => Recovered(c, i)

\* C24 as it holds: the same of frames within the rate limit on a connection
\* that has not been lost.
FrameErrorRecoveredWithinLimit ==
    \A c \in Conns : \A i \in 1..Len(dispatched[c]) :
        (/\ RaisesOn(dispatched[c][i].frame)
         /\ HandlerOver(c, i)
         /\ dispatched[c][i].count <= message_rate_limit
         /\ exit[c].cause = "none")
        => Recovered(c, i)

\* C24 happens: a frame whose kind is no integer, an order without an id and a
\* subscription were read, two of them in one read; the first two were
\* answered with SERVER_ERROR and the subscription behind them was stored.
RecoveredAndWentOn ==
    \E c \in Conns :
        /\ Len(dispatched[c]) >= 3
        /\ dispatched[c][1].frame = <<"X">>
        /\ dispatched[c][2].frame =
               KindOnlyFrame(IncomingMessageIds.PLACE_ORDER)
        /\ dispatched[c][3].frame = MktDataFrame(10, "X")
        /\ Recovered(c, 1) /\ Recovered(c, 2)
        /\ dict_has(market_data_subscriptions[c], PyInt(10))
        /\ exit[c].cause = "none"

\* ------------------------------------------------------------ broadcast sink
\* One session that subscribes X, then Y, then X under a second key, while
\* one broadcast of X with two or three of the six tick fields is delivered.
AskLastAskSize ==
    [f \in {"ask", "last", "ask_size"} |->
        IF f = "ask_size" THEN PyInt(7) ELSE PyFloat("2.0")]
SinkTicks == {BidAndVolume, AskLastAskSize}
SinkScript ==
    <<MktDataFrame(10, "X"), MktDataFrame(12, "Y"), MktDataFrame(11, "X")>>
SinkFrames(c) == {SinkScript[k] : k \in {nread[c] + 1} \cap DOMAIN SinkScript}

NextSink ==
    \/ Accept
    \/ \E c \in Talkers : HandshakeRead(c, HS_RANGE)
    \/ \E c \in Talkers : HandshakeDone(c)
    \/ \E c \in Talkers : \E f \in SinkFrames(c) :
          Read(c, <<f>>, Len(SinkScript))
    \/ \E c \in Talkers : Send(c)
    \/ \E data \in SinkTicks : Broadcast("X", data)
    \/ \E t \in tasks : Deliver(t)

SpecSink == Init /\ [][NextSink]_vars

\* The frames the delivery of broadcast b wrote on session c, in the order
\* written.
DeliveryFrames(c, b) ==
    LET at == SelectSeq([k \in 1..Len(emitted[c]) |-> k],
                        LAMBDA k : k \in Emitted(c, "delivery", b))
    IN  [j \in 1..Len(at) |-> emitted[c][at[j]].frame]

\* The frames one descriptor is due from ticks: TICK_PRICE of type 1 (bid),
\* 2 (ask) and 4 (last), then TICK_SIZE of type 0 (bid_size), 3 (ask_size) and
\* 8 (volume), each for a field that is present.
TicksDue(req_id, ticks) ==
    (IF "bid" \in DOMAIN ticks
     THEN <<tick_price(req_id, 1, ticks["bid"])>> ELSE <<>>)
    \o (IF "ask" \in DOMAIN ticks
        THEN <<tick_price(req_id, 2, ticks["ask"])>> ELSE <<>>)
    \o (IF "last" \in DOMAIN ticks
        THEN <<tick_price(req_id, 4, ticks["last"])>> ELSE <<>>)
    \o (IF "bid_size" \in DOMAIN ticks
        THEN <<tick_size(req_id, 0, ticks["bid_size"])>> ELSE <<>>)
    \o (IF "ask_size" \in DOMAIN ticks
        THEN <<tick_size(req_id, 3, ticks["ask_size"])>> ELSE <<>>)
    \o (IF "volume" \in DOMAIN ticks
        THEN <<tick_size(req_id, 8, ticks["volume"])>> ELSE <<>>)

\* The keys under which session c has held a descriptor of symbol.
EverHeld(c, symbol) ==
    UNION {KeysOf(dispatched[c][i].after.subs, symbol)
           : i \in 1..Len(dispatched[c])}

\* C25: the frames of one delivery are, descriptor after descriptor, the ticks
\* due to a descriptor of the symbol: one frame for each field present, in the
\* order bid, ask, last, bid_size, ask_size, volume, under the descriptor's
\* req_id; a delivery that ran to its end left no descriptor's ticks unfinished;
\* no frame is written for a descriptor of another symbol, and none is a
\* last-size tick.
SinkEmissionOrder ==
    \A t \in tasks :
        LET ticks == broadcasts[t.b].data
            per == Len(TicksDue(PyInt(0), ticks))
            fs == DeliveryFrames(t.c, t.b)
        IN  /\ \A j \in 1..Len(fs) :
                   \E r \in EverHeld(t.c, t.symbol) :
                       /\ fs[j] = TicksDue(r, ticks)[((j - 1) % per) + 1]
                       /\ fs[j - ((j - 1) % per)] = TicksDue(r, ticks)[1]
            /\ t.st = "done" => Len(fs) % per = 0
            /\ \A j \in 1..Len(fs) :
                   ~(IsKind(fs[j], OutgoingMessageIds.TICK_SIZE)
                     /\ fs[j][3] = "5")

\* C25 happens: a delivery of ask, last and ask_size ran to its end on a
\* session that held X under two keys and Y under a third, and wrote six
\* frames.
SinkDeliveredTwo ==
    \E t \in tasks :
        /\ t.st = "done"
        /\ broadcasts[t.b].data = AskLastAskSize
        /\ Len(DeliveryFrames(t.c, t.b)) = 6
        /\ KeysOf(market_data_subscriptions[t.c], "Y") # {}

\* -------------------------------------------------------------------- store
\* The queries in `queries` start to fail: the connection raises on them.
StoreFault(queries) ==
    /\ queries \subseteq StoreQueries
    /\ store.failing = {}
    /\ store' = [store EXCEPT !.failing = queries]
    /\ UNCHANGED <<clients, next_client_id, now, pc, api_connected,
                   client_version, connection_time,
                   market_data_subscriptions, account_subscriptions,
                   message_count, last_message_time, buffer, outq, eof, wire,
                   tasks, emitted, nread, nproc, first_read, dispatched,
                   broadcasts, cancel_log, client_id, rxbuf, naps, exit,
                   codec, rxlog, stopping>>

\* One session that asks for what the store holds: account subscriptions and
\* their ends for the configured account, by name and by default, and for one
\* the store does not hold; positions; open orders; contract details for a
\* symbol the store holds, for one it does not and for none.  At some
\* moment one query of the store, or every query, starts to fail.
ReqPositionsFrame == KindOnlyFrame(IncomingMessageIds.REQ_POSITIONS)
ReqOpenOrdersFrame == KindOnlyFrame(IncomingMessageIds.REQ_OPEN_ORDERS)
StoreFrames ==
    {AcctDataFrame("1", ""), AcctDataFrame("0", ""),
     AcctDataFrame("0", FirstAccount), AcctDataFrame("0", "DU999999"),
     ReqPositionsFrame, ReqOpenOrdersFrame,
     ContractDataFrame(10, "X"), ContractDataFrame(10, "Z"),
     ContractDataFrame(10, "")}
StoreFaults ==
    {{"get_account_summary"}, {"get_positions"}, StoreQueries}

NextStore ==
    \/ Accept
    \/ \E c \in Talkers : HandshakeRead(c, HS_RANGE)
    \/ \E c \in Talkers : HandshakeDone(c)
    \/ \E c \in Talkers, f \in StoreFrames : Read(c, <<f>>, MaxFrames)
    \/ \E c \in Talkers : Send(c)
    \/ \E queries \in StoreFaults : StoreFault(queries)

SpecStore == Init /\ [][NextStore]_vars

\* C26: a REQ_ACCT_DATA with subscribe=0 leaves the account (the first
\* configured one when account_code is empty) out of account_subs, whether it
\* was in before or not, and is answered with one frame, ACCT_DOWNLOAD_END for
\* that account.
AcctUnsubscribe ==
    \A c \in Conns : \A i \in 1..Len(dispatched[c]) :
        LET d == dispatched[c][i]
            account == IF d.frame[3] = "" THEN FirstAccount ELSE d.frame[3]
        IN  (/\ d.routed
             /\ IsKind(d.frame, IncomingMessageIds.REQ_ACCT_DATA)
             /\ Len(d.frame) = 3 /\ d.frame[2] = "0"
             /\ HandlerOver(c, i))
            => /\ account \notin d.after.acct
               /\ d.after.acct = d.before.acct \ {account}
               /\ d.after.subs = d.before.subs
               /\ HandlerFrames(c, i) =
                      <<<<ToString(OutgoingMessageIds.ACCT_DOWNLOAD_END),
                          account>>>>

\* C26 happens: the configured account was subscribed, then unsubscribed by
\* default, and then unsubscribed once more by name.
UnsubscribedTwice ==
    \E c \in Conns :
        /\ Len(dispatched[c]) = 3
        /\ dispatched[c][1].frame = AcctDataFrame("1", "")
        /\ dispatched[c][2].frame = AcctDataFrame("0", "")
        /\ dispatched[c][3].frame = AcctDataFrame("0", FirstAccount)
        /\ FirstAccount \in dispatched[c][2].before.acct
        /\ FirstAccount \notin dispatched[c][3].before.acct
        /\ HandlerOver(c, 3)

\* Whether the store, as it is when the i-th frame of session c is dispatched,
\* finds a contract for the symbol and sec_type the frame asks for.
ContractFound(d) ==
    /\ d.frame[4] = "X" /\ d.frame[5] = "STK"
    /\ "get_contract_by_symbol" \notin d.failing

\* C27: a REQ_CONTRACT_DATA(req_id=r) is answered with one CONTRACT_DATA frame
\* when the store finds a contract for its symbol and sec_type and with none
\* when the symbol is empty or the lookup returns nothing, and in each case with
\* one CONTRACT_DATA_END(r) as the last frame.
ContractDataAnswered ==
    \A c \in Conns : \A i \in 1..Len(dispatched[c]) :
        LET d == dispatched[c][i]
            hf == HandlerFrames(c, i)
        IN  (/\ d.routed
             /\ IsKind(d.frame, IncomingMessageIds.REQ_CONTRACT_DATA)
             /\ Len(d.frame) = 5
             /\ HandlerOver(c, i))
            => /\ hf # <<>>
               /\ hf[Len(hf)] =
                      <<ToString(OutgoingMessageIds.CONTRACT_DATA_END),
                        d.frame[2]>>
               /\ Len(hf) = IF ContractFound(d) THEN 2 ELSE 1
               /\ ContractFound(d)
                  => /\ IsKind(hf[1], OutgoingMessageIds.CONTRACT_DATA)
                     /\ hf[1][2] = d.frame[2]
                     /\ hf[1][3] = d.frame[4]
               /\ d.after = d.before

\* C27 happens: one session asked for the contract of a symbol the store
\* holds, of one it does not hold and of no symbol, and got two frames for the
\* first and the end marker alone for the others.
ContractAskedThrice ==
    \E c \in Conns :
        /\ Len(dispatched[c]) = 3 /\ HandlerOver(c, 3)
        /\ dispatched[c][1].frame = ContractDataFrame(10, "X")
        /\ dispatched[c][2].frame = ContractDataFrame(10, "Z")
        /\ dispatched[c][3].frame = ContractDataFrame(10, "")
        /\ Len(HandlerFrames(c, 1)) = 2
        /\ Len(HandlerFrames(c, 2)) = 1
        /\ Len(HandlerFrames(c, 3)) = 1

\* The kinds of the frames a handler builds from the rows of one store query.
DataKinds(query) ==
    CASE query = "get_account_summary" ->
             {OutgoingMessageIds.ACCT_VALUE, OutgoingMessageIds.ACCT_UPDATE_TIME}
      [] query = "get_positions" ->
             {OutgoingMessageIds.PORTFOLIO_VALUE,
              OutgoingMessageIds.POSITION_DATA}
      [] query = "get_contract_by_symbol" -> {OutgoingMessageIds.CONTRACT_DATA}
      [] OTHER -> {}

\* The end marker that closes the answer to an inbound frame of the four kinds
\* that query the store.
EndMarker(frame) ==
    CASE IsKind(frame, IncomingMessageIds.REQ_ACCT_DATA) ->
             <<ToString(OutgoingMessageIds.ACCT_DOWNLOAD_END),
               IF frame[3] = "" THEN FirstAccount ELSE frame[3]>>
      [] IsKind(frame, IncomingMessageIds.REQ_POSITIONS) ->
             <<ToString(OutgoingMessageIds.POSITION_END)>>
      [] IsKind(frame, IncomingMessageIds.REQ_OPEN_ORDERS) ->
             <<ToString(OutgoingMessageIds.OPEN_ORDER_END)>>
      [] OTHER ->
             <<ToString(OutgoingMessageIds.CONTRACT_DATA_END), frame[2]>>

\* The queries the handler of an inbound frame makes.
QueriesOf(frame) ==
    CASE IsKind(frame, IncomingMessageIds.REQ_ACCT_DATA) ->
             IF frame[2] = "1" THEN {"get_account_summary", "get_positions"}
             ELSE {}
      [] IsKind(frame, IncomingMessageIds.REQ_POSITIONS) -> {"get_positions"}
      [] IsKind(frame, IncomingMessageIds.REQ_OPEN_ORDERS) ->
             {"get_open_orders"}
      [] IsKind(frame, IncomingMessageIds.REQ_CONTRACT_DATA) ->
             IF frame[4] = "" THEN {} ELSE {"get_contract_by_symbol"}
      [] OTHER -> {}

\* C28: when a query of the store fails under a REQ_ACCT_DATA subscribe, a
\* REQ_POSITIONS, a REQ_OPEN_ORDERS or a REQ_CONTRACT_DATA, the handler ends
\* without an exception, its last frame is the end marker of the request, none
\* of its frames is of a kind built from the rows of the failed query, and the
\* session is as open as before.
StoreFailureAbsorbed ==
    \A c \in Conns : \A i \in 1..Len(dispatched[c]) :
        LET d == dispatched[c][i]
            hf == HandlerFrames(c, i)
            failed == QueriesOf(d.frame) \cap d.failing
        IN  (d.routed /\ failed # {} /\ HandlerOver(c, i))
            => /\ ~d.excepted
               /\ hf # <<>>
               /\ hf[Len(hf)] = EndMarker(d.frame)
               /\ \A j \in 1..Len(hf), q \in failed :
                      \A k \in DataKinds(q) : ~IsKind(hf[j], k)
               /\ \A j \in 1..(Len(hf) - 1) : hf[j] # EndMarker(d.frame)
               /\ exit[c] = NoExit
               /\ pc[c] \in {"read", "ready", "send"}

\* C28 happens: every query of the store failed under an account subscription,
\* which was answered with the end marker alone, and the session went on to
\* answer a request for positions, again with the end marker alone.
FailedAndWentOn ==
    \E c \in Conns :
        /\ Len(dispatched[c]) >= 2 /\ HandlerOver(c, 2)
        /\ dispatched[c][1].frame = AcctDataFrame("1", "")
        /\ dispatched[c][1].failing = StoreQueries
        /\ HandlerFrames(c, 1) = <<EndMarker(AcctDataFrame("1", ""))>>
        /\ dispatched[c][2].frame = ReqPositionsFrame
        /\ HandlerFrames(c, 2) = <<EndMarker(ReqPositionsFrame)>>

\* ------------------------------------------------------- version negotiation
\* Every peer opens with API\0 and some version token, well formed or not, and
\* then closes.
HS_EMPTY == <<"A", "P", "I", NUL>>
HS_BAD_MAX == <<"A", "P", "I", NUL, "1", "0", "0", ".", ".", "x", NUL>>
HS_BAD_MIN == <<"A", "P", "I", NUL, "v", "x", ".", ".", "1", "7", "6", NUL>>
HS_NO_MIN == <<"A", "P", "I", NUL, ".", ".", "1", "7", "6", NUL>>
HS_TWO_RANGES == <<"A", "P", "I", NUL, "1", ".", ".", "2", ".", ".", "3", NUL>>
VersionHandshakes ==
    {HS_RANGE, HS_BARE_RANGE, HS_V, HS_PLAIN, HS_WORD, HS_EMPTY, HS_BAD_MAX,
     HS_BAD_MIN, HS_NO_MIN, HS_TWO_RANGES}

NextVersion ==
    \/ Accept
    \/ \E c \in Conns : \E data \in VersionHandshakes : HandshakeRead(c, data)
    \/ \E c \in Conns : HandshakeDone(c)
    \/ \E c \in Conns : ReadEOF(c)
    \/ \E c \in Conns : Closed(c)

SpecVersion == Init /\ [][NextVersion]_vars

\* The version token of a first read that starts with API\0: what lies between
\* the prefix and the next NUL, without a leading v.
VersionToken(data) ==
    LET raw == SplitBytes(data, NUL)[2]
    IN  IF raw # <<>> /\ raw[1] = "v" THEN Tail(raw) ELSE raw

\* The client version a token stands for: N for the integer N, MAX for the
\* range MIN..MAX of two integers, and 100 for anything else.
TokenVersion(token) ==
    LET pieces == SplitDots(token)
    IN  IF IsDecimal(token) THEN DecimalValue(token)
        ELSE IF /\ Len(pieces) = 2
                /\ IsDecimal(pieces[1]) /\ IsDecimal(pieces[2])
             THEN DecimalValue(pieces[2])
             ELSE 100

\* C29: once the handshake of a first read that starts with API\0 is over, the
\* session is connected and its client_version is N for a token N or vN, MAX
\* for a token MIN..MAX or vMIN..MAX, and 100 for every other token.
VersionNegotiated ==
    \A c \in Conns :
        (/\ pc[c] = "read"
         /\ startswith(first_read[c], API_PREFIX))
        => /\ api_connected[c]
           /\ client_version[c] = PyInt(TokenVersion(VersionToken(first_read[c])))

\* The frames of session c that were dispatched to a handler in the second
\* that ends with the dispatch of its i-th frame, that frame included.
DispatchedInSecond(c, i) ==
    {j \in 1..i :
        /\ dispatched[c][j].routed
        /\ dispatched[c][j].t > dispatched[c][i].t - TicksPerSecond}

\* C30: on every session, no interval of one second holds more than
\* message_rate_limit frames that were dispatched to handlers, wherever the
\* interval lies with respect to the start of the limiter's window.
SlidingWindow ==
    \A c \in Conns : \A i \in 1..Len(dispatched[c]) :
        dispatched[c][i].routed
        => Cardinality(DispatchedInSecond(c, i)) <= message_rate_limit

\* ---------------------------------------------------------- end of stream
\* A read of a stream that is at its end returns b'' at once, and the event
\* loop closes the transport of a writer that was closed.
FairListener ==
    \A c \in Conns : /\ WF_vars(eof[c] /\ ReadEOF(c))
                     /\ WF_vars(Closed(c))

SpecListenerFair == SpecListener /\ FairListener

\* The peer of session c closed the connection before it sent a byte: the
\* first read of the handshake returned b''.
ClosedBeforeHandshake(c) ==
    /\ pc[c] \in {"read", "closing", "closed", "aborted"}
    /\ first_read[c] = <<>>

\* What such a session has done: nothing written, nothing dispatched, never
\* connected, and out of the registry once its socket is closed.
SilentUntilClosed(c) ==
    /\ wire[c] = <<>> /\ emitted[c] = <<>> /\ outq[c] = <<>>
    /\ ~api_connected[c]
    /\ dispatched[c] = <<>> /\ nread[c] = 0
    /\ pc[c] # "aborted"
    /\ pc[c] = "closed" => c \notin clients

\* C31: a session whose peer closed before any handshake byte sends no frame,
\* is never connected, dispatches nothing, and comes to have its socket closed
\* and its entry out of the registry.
HandshakeEOF ==
    /\ [](\A c \in Conns : ClosedBeforeHandshake(c) => SilentUntilClosed(c))
    /\ \A c \in Conns :
           ClosedBeforeHandshake(c) ~> (pc[c] = "closed" /\ c \notin clients)

\* C31 happens: a session that read end of stream in its handshake is closed
\* and gone from the registry, next to a session that was connected.
ClosedSilently ==
    \E c, o \in Conns :
        /\ ClosedBeforeHandshake(c) /\ pc[c] = "closed" /\ c \notin clients
        /\ exit[c].cause = "eof"
        /\ api_connected[o]

\* ------------------------------------------------------------ one at a time
\* One session whose peer sends orders, cancels of orders and a subscription,
\* one, two or three to a read, so that frames wait in the buffer while a
\* handler sends or sleeps.
SerialFrames ==
    {PlaceOrderFrame(42, "X"), CancelOrderFrame(42), MktDataFrame(10, "X")}
SerialReads ==
    {<<f>> : f \in SerialFrames} \cup (SerialFrames \X SerialFrames)
        \cup (SerialFrames \X SerialFrames \X SerialFrames)

NextSerial ==
    \/ Accept
    \/ \E c \in Talkers : HandshakeRead(c, HS_RANGE)
    \/ \E c \in Talkers : HandshakeDone(c)
    \/ \E c \in Talkers, data \in SerialReads : Read(c, data, MaxFrames)
    \/ \E c \in Talkers : Continue(c)
    \/ \E c \in Talkers : Send(c)
    \/ \E c \in Talkers : Sleep(c)

SpecSerial == Init /\ [][NextSerial]_vars

\* The handler call for the i-th frame of session c has written every frame
\* it writes.
HandlerComplete(c, i) ==
    Cardinality(Emitted(c, "handler", i)) = dispatched[c][i].sends

\* On the socket of session c the frames of the handlers lie in the order of
\* the inbound frames they answer, and no handler has yet written for a frame
\* behind the one in hand.
AnswersInArrivalOrder(c) ==
    /\ \A p, q \in 1..Len(wire[c]) :
          (p < q /\ wire[c][p].src = "handler" /\ wire[c][q].src = "handler")
          => wire[c][p].n <= wire[c][q].n
    /\ Len(dispatched[c]) = nproc[c]
    /\ \A i \in 1..(nproc[c] - 1) : HandlerComplete(c, i)
    /\ \A p \in 1..Len(emitted[c]) :
          emitted[c][p].src = "handler" => emitted[c][p].n <= nproc[c]

\* A frame of session c is rate-checked and dispatched in this step only when
\* the handler of the frame before it is over, its sleep included.
NextFrameWaits(c) ==
    dispatched'[c] # dispatched[c]
    => /\ outq[c] = <<>>
       /\ pc[c] \in {"read", "ready"}
       /\ nproc[c] > 0 => HandlerComplete(c, nproc[c])
       /\ nproc'[c] = nproc[c] + 1
       /\ pc[c] = "read" => buffer[c] = <<>>
       /\ pc[c] = "ready"
          => /\ dispatched'[c][nproc'[c]].frame = Head(buffer[c])
             /\ buffer'[c] = Tail(buffer[c])

\* C32: the requests of a session are served one at a time in arrival order:
\* the handler of frame i has written all its frames, the one behind its sleep
\* included, before frame i+1 is rate-checked or dispatched, and so the
\* answers to frame i lie before the answers to frame i+1 on the socket.
OneAtATime ==
    /\ [](\A c \in Conns : AnswersInArrivalOrder(c))
    /\ [][\A c \in Conns : NextFrameWaits(c)]_vars

\* C32 happens: an order and a subscription came in one read, the order's
\* handler slept with the subscription waiting in the buffer, and the second
\* status of the order lies before the first tick of the subscription.
ServedBehindSleep ==
    \E c \in Conns :
        /\ Len(dispatched[c]) = 2 /\ HandlerOver(c, 2)
        /\ dispatched[c][1].frame = PlaceOrderFrame(42, "X")
        /\ dispatched[c][2].frame = MktDataFrame(10, "X")
        /\ nread[c] = 2
        /\ \E i \in 1..Len(naps[c]) : naps[c][i].n = 1
        /\ Len(wire[c]) = 10
        /\ wire[c][3].n = 1 /\ wire[c][4].n = 2

\* ------------------------------------------------------------ registry keys
\* Every session sends START_API with the id the listener gave to the first
\* connection or to the second, or without an id, and then closes at some
\* moment, while further connections arrive.
RegistryFrames == {StartApiFrame("1"), StartApiFrame("2"), StartApiBare}

NextRegistry ==
    \/ Accept
    \/ \E c \in Conns : HandshakeRead(c, HS_RANGE)
    \/ \E c \in Conns : HandshakeDone(c)
    \/ \E c \in Conns, f \in RegistryFrames : Read(c, <<f>>, 1)
    \/ \E c \in Conns : Send(c)
    \/ \E c \in Conns : ReadEOF(c)
    \/ \E c \in Conns : Closed(c)

SpecRegistry == Init /\ [][NextRegistry]_vars

\* The sessions that were admitted and whose handle_client has not ended.
Running == {c \in Conns : pc[c] \notin {"none", "rejected", "closed", "aborted"}}

\* What a step does to the registry: nothing when a session adopts a client
\* id; otherwise it adds the id the listener hands out in this step, or it
\* takes out the listener-assigned id of the one session that ends in it.
RegistryStep ==
    /\ (\E c \in Running : client_id'[c] # client_id[c]) => clients' = clients
    /\ clients' # clients
       => \/ /\ clients' = clients \cup {next_client_id}
             /\ pc[next_client_id] = "none"
          \/ \E c \in Conns :
                /\ pc[c] = "closing" /\ pc'[c] = "closed"
                /\ c \in clients /\ clients' = clients \ {c}

\* C33: the registry holds each running session under the id the listener
\* gave it, whatever client_id the session adopted from START_API: adopting an
\* id adds no entry and displaces none, and the end of a session removes the
\* entry made when it was accepted and no other.
RegistryKeyKept ==
    /\ [](clients = Running)
    /\ [][RegistryStep]_vars

\* C33 happens: the first two sessions both adopted the client id 2, the first
\* one ended, and the registry holds the second alone.
AdoptedSameId ==
    /\ client_id[1] = 2 /\ client_id[2] = 2
    /\ dispatched[1] # <<>> /\ dispatched[1][1].client_id.before = 1
    /\ dispatched[2] # <<>> /\ dispatched[2][1].frame = StartApiFrame("2")
    /\ pc[1] = "closed" /\ pc[2] = "read"
    /\ clients = {2}

\* ----------------------------------------------------------------- shutdown
\* One session subscribes X and ends in some way (end of stream, a reset, a
\* cancellation) while the source broadcasts a bid of X at any moment.
NextShutdown ==
    \/ Accept
    \/ \E c \in Talkers : HandshakeRead(c, HS_RANGE)
    \/ \E c \in Talkers : HandshakeDone(c)
    \/ \E c \in Talkers : Read(c, <<MktDataFrame(10, "X")>>, 1)
    \/ \E c \in Talkers : Send(c)
    \/ \E c \in Talkers : ReadEOF(c)
    \/ \E c \in Talkers : ReadError(c)
    \/ \E c \in Talkers : Cancel(c)
    \/ \E c \in Talkers : \E e \in CloseErrors(c) : CloseEnds(c, e)
    \/ Broadcast("X", BidOnly)
    \/ \E t \in tasks : Deliver(t)

SpecShutdown == Init /\ [][NextShutdown]_vars

\* close() of session c has closed the writer.
Terminated(c) == pc[c] \in {"closing", "closed", "aborted"}

\* In this step no broadcast creates a delivery for a terminated session and
\* no tick frame reaches the socket of one.
QuietOnceTerminated ==
    \A c \in Conns :
        Terminated(c)
        => /\ \A t \in tasks' \ tasks : t.c # c
           /\ wire'[c] = wire[c]

\* C34: once close() of a session has closed its socket, no broadcast starts a
\* delivery on the session and no tick frame is written to its socket.
NoBroadcastToTerminated == [][QuietOnceTerminated]_vars

\* A delivery of broadcast b writes a frame on session c in this step.
DeliveryWrites(c, b) ==
    /\ emitted'[c] # emitted[c]
    /\ emitted'[c][Len(emitted'[c])].src = "delivery"
    /\ emitted'[c][Len(emitted'[c])].n = b

\* Session c has processed a CANCEL_MKT_DATA of req_id since the broadcast b
\* was invoked and has not subscribed req_id again: a delivery of b that holds
\* req_id took it from the dict before the cancel and was suspended at one of
\* its writes when the cancel was processed.
CancelledInFlight(c, b, req_id) ==
    \E e \in cancel_log[c] : e.req_id = req_id /\ e.live /\ e.at >= b

\* C35: a delivery that was suspended between two of its writes when the
\* session processed CANCEL_MKT_DATA(req_id=r) writes no tick frame carrying r
\* after the cancel.
NoTickAfterCancelInFlight ==
    [][\A t \in tasks :
          (CancelledInFlight(t.c, t.b, t.req_id) /\ DeliveryWrites(t.c, t.b))
          => ~CarriesReqId(emitted'[t.c][Len(emitted'[t.c])].frame,
                           t.req_id)]_vars

\* The keys session c held for the symbol of broadcast b when the broadcast
\* was invoked and holds now.
StillSubscribed(c, b) ==
    {req_id \in broadcasts[b].holders[c] :
        dict_has(market_data_subscriptions[c], req_id)}

\* C36: a delivery under which the session's handlers insert a key into
\* market_data_subscriptions or remove one does not fail, and when it is over
\* it has written the ticks of every descriptor of the symbol that was there
\* from its start and is still subscribed.
DeliverySurvivesChanges ==
    \A t \in tasks :
        /\ t.st # "failed"
        /\ t.st = "done"
           => \A req_id \in StillSubscribed(t.c, t.b) :
                  \E i \in Emitted(t.c, "delivery", t.b) :
                      CarriesReqId(emitted[t.c][i].frame, req_id)

\* ------------------------------------------------------- handshake boundary
\* One peer sends its handshake alone, or with a START_API behind it in the
\* same segment, or with a START_API and a frame of an unknown kind behind it,
\* and two frames more in a later segment.
BoundaryScript == <<<<PyInt(71), PyInt(7), PyStr(<<>>)>>, <<PyInt(9999)>>>>
BoundaryHandshakes ==
    {HS_RANGE \o StreamOf(SubSeq(BoundaryScript, 1, k)) : k \in 0..2}

NextBoundary ==
    \/ Accept
    \/ \E c \in Talkers, data \in BoundaryHandshakes : HandshakeRead(c, data)
    \/ \E c \in Talkers : HandshakeDone(c)
    \/ \E c \in Talkers :
          Read(c, <<UnknownKindFrame, MktDataFrame(10, "X")>>, 2)
    \/ \E c \in Talkers : Continue(c)
    \/ \E c \in Talkers : Send(c)
    \/ \E c \in Talkers : ReadEOF(c)
    \/ \E c \in Talkers : Closed(c)

SpecBoundary == Init /\ [][NextBoundary]_vars

\* The complete frames behind the handshake (API\0, version token, \0) in the
\* bytes of a first read.
BehindHandshake(data) ==
    LET token == SplitBytes(data, NUL)[2]
        from == Len(API_PREFIX) + Len(token) + 2
        frames == ExtractFrames(SubSeq(data, from, Len(data))).frames
    IN  [i \in 1..Len(frames) |-> TextFrame(frames[i])]

\* C37: the complete frames that the first read holds behind the handshake are
\* dispatched, in order, after the handshake reply and before any other frame:
\* they lead what the session has dispatched, and the ingress loop does not
\* wait for more bytes while one of them is still to be dispatched.
BoundaryFramesKept ==
    \A c \in Conns :
        (startswith(first_read[c], API_PREFIX) /\ api_connected[c])
        => LET behind == BehindHandshake(first_read[c])
           IN  /\ \A i \in 1..Len(behind) :
                      i <= Len(dispatched[c])
                      => dispatched[c][i].frame = behind[i]
               /\ pc[c] \in {"read", "closing", "closed"}
                  => Len(dispatched[c]) >= Len(behind)

\* ------------------------------------------------------------- empty frames
\* One session whose peer sends frames with a zero-length body among
\* subscriptions, one or two to a read, up to one frame past the limit, while
\* the clock runs.
EmptyFrame == <<>>
EmptyFrames == {EmptyFrame, MktDataFrame(10, "X")}
EmptyReads == {<<f>> : f \in EmptyFrames} \cup (EmptyFrames \X EmptyFrames)

NextEmpty ==
    \/ Accept
    \/ \E c \in Talkers : HandshakeRead(c, HS_RANGE)
    \/ \E c \in Talkers : HandshakeDone(c)
    \/ \E c \in Talkers, data \in EmptyReads :
          Read(c, data, message_rate_limit + 1)
    \/ \E c \in Talkers : Continue(c)
    \/ \E c \in Talkers : Send(c)
    \/ Tick

SpecEmpty == Init /\ [][NextEmpty]_vars

\* The i-th frame of session c took one place in the limiter's window: the
\* first place of a window that starts with it, or the place behind the frame
\* before it.
TookPlace(c, i) ==
    LET d == dispatched[c][i]
        before == IF i = 1 THEN [count |-> 0, last |-> connection_time[c]]
                  ELSE dispatched[c][i - 1]
    IN  IF d.t - before.last > rate_limit_window
        THEN d.count = 1 /\ d.last = d.t
        ELSE d.count = before.count + 1 /\ d.last = before.last

\* C38: a frame with a zero-length body takes its place in the limiter's
\* window, and within the limit nothing is written for it, no handler runs,
\* no subscription changes and the session stays open.
EmptyFrameDropped ==
    \A c \in Conns : \A i \in 1..Len(dispatched[c]) :
        LET d == dispatched[c][i]
        IN  d.frame = EmptyFrame
            => /\ TookPlace(c, i)
               /\ d.count <= message_rate_limit
                  => /\ d.sends = 0 /\ Emitted(c, "handler", i) = {}
                     /\ ~d.routed /\ ~d.handled /\ ~d.excepted
                     /\ d.after = d.before
                     /\ d.client_id.after = d.client_id.before
                     /\ exit[c] = NoExit
                     /\ pc[c] \in {"read", "ready", "send"}

\* C38 happens: two empty frames went by in silence, the subscription behind
\* them was served as the third frame of the window, and the next frame of the
\* same window was turned away for the rate.
EmptyFramesCounted ==
    \E c \in Conns :
        /\ Len(dispatched[c]) = 4 /\ HandlerOver(c, 4)
        /\ dispatched[c][1].frame = EmptyFrame
        /\ dispatched[c][2].frame = EmptyFrame
        /\ dispatched[c][3].frame = MktDataFrame(10, "X")
        /\ dispatched[c][3].handled /\ dispatched[c][3].count = 3
        /\ Cardinality(Emitted(c, "handler", 3)) = 7
        /\ Len(emitted[c]) = 9
        /\ IsRateError(emitted[c][9].frame)

====
